---- MODULE Spec2Model ----
(***************************************************************************)
(* Trade execution and credential lifecycle of equialgo-scraper.           *)
(*                                                                         *)
(* The credential store (state.ts), the per-portfolio caches and the       *)
(* order executor (trader.ts) and the Tradier client (tradier-client.ts)   *)
(* are modelled as one state machine.  Strings that the code trims or      *)
(* tests for emptiness are sequences of one-character strings, so that     *)
(* trimming and truthiness are computed, not assumed.  Tokens are numbers: *)
(* 0 is the empty string, n > 0 the n-th token the broker issued.          *)
(***************************************************************************)
EXTENDS Integers, Sequences, FiniteSets, TLC

VARIABLES
  schwab_credentials,       \* table schwab_credentials: portfolio_id -> row
  tradier_credentials,      \* table tradier_credentials: portfolio_id -> row
  lastWritten,              \* history: brokerage of the last completed write per portfolio
  schwabClientByPortfolio,  \* trader.ts cache of SDK clients
  accountHashByPortfolio,   \* trader.ts cache of account hashes
  ENABLE_TRADING,           \* SCHWAB_ENABLE_TRADING === "true"
  TRADIER_ENABLE_TRADING,   \* TRADIER_ENABLE_TRADING === "true"
  held,                     \* the broker's account: symbol -> long quantity, or NoPos
  entry,                    \* which entry point is running
  portfolioId,              \* its portfolioId argument
  actions,                  \* executeTradesFromActions: the actions argument
  enterSignals,             \* executeTrades: signals.enterSignals
  exitSignals,              \* executeTrades: signals.exitSignals
  positions,                \* executeTrades: the local positions map
  summary,                  \* the TradeExecutionSummary being built
  pc,                       \* position of the (single-threaded) engine
  idx,                      \* index of the loop the engine is in
  cur,                      \* arguments of the running placeBuyOrder/placeSellOrder
  phase,                    \* part of the entry point running: fetch, enter, exit, action
  accountNumber,            \* local accountNumber (Schwab account hash) of the running call
  accountId,                \* local accountId (Tradier) of the running call
  depth,                    \* number of recursive re-invocations of the running call
  result,                   \* value returned by the order call or the read-only call
  thrown,                   \* error the entry point rejected with
  calls,                    \* history: broker and store calls made by the engine
  task,                     \* index.ts, ui-server.ts: the asynchronous invocations of the process
  writer,                   \* state.ts: position of each running credential write
  today,                    \* scraper.ts: the date extractDate() returns
  lastProcessedDate,        \* table state: last_processed_date of row 1 (0 is NULL)
  job,                      \* index.ts: the running runCheck()
  journal,                  \* history: what the runs of runCheck() did
  clientOf,                 \* trader.ts: which client object schwabClientByPortfolio holds (0: none)
  clientLog,                \* history: calls of initializeSchwabClient and evictions
  profile,                  \* tradier-client.ts: the last reply to GET /v1/user/profile
  lookup,                   \* tradier-client.ts: how the last getTradierAccountId ended
  runs,                     \* index.ts: the startup runCheck() and the one of the cron callback
  pending,                  \* trader.ts: the write-back whose broker call is awaited
  login                     \* schwab-oauth.ts: the module state and the login flows

vars == <<schwab_credentials, tradier_credentials, lastWritten,
          schwabClientByPortfolio, accountHashByPortfolio,
          ENABLE_TRADING, TRADIER_ENABLE_TRADING, held, entry, portfolioId,
          actions, enterSignals, exitSignals, positions, summary, pc, idx,
          cur, phase, accountNumber, accountId, depth, result, thrown, calls,
          task, writer, today, lastProcessedDate, job, journal, clientOf,
          clientLog, profile, lookup, runs, pending, login>>

storeVars == <<schwab_credentials, tradier_credentials, lastWritten>>
cacheVars == <<schwabClientByPortfolio, accountHashByPortfolio>>
configVars == <<ENABLE_TRADING, TRADIER_ENABLE_TRADING>>
inputVars == <<entry, portfolioId, actions, enterSignals, exitSignals>>
ctlVars == <<pc, result, thrown, summary>>
loopVars == <<phase, idx, cur, depth>>
localVars == <<accountNumber, accountId>>
engineVars == <<held, positions, ctlVars, loopVars, localVars, calls>>
dailyVars == <<today, lastProcessedDate, job, journal>>
clientVars == <<clientOf, clientLog>>
profileVars == <<profile, lookup>>
overlapVars == <<runs>>
sideVars == <<profileVars, overlapVars, pending, login>>
processVars == <<task, writer, dailyVars, clientVars, sideVars>>

-----------------------------------------------------------------------------
(* Values *)

Portfolios == {1, 2}

\* SQL NULL / JavaScript null or undefined, for a string-valued field.
Null == "null"
\* The same for a field whose string is kept as a sequence of characters.
NullStr == <<"NULL">>
\* An optional record is a sequence of length 0 (absent) or 1.
None == <<>>
Some(x) == <<x>>
\* A table cell with no row for the portfolio.
NoRow == None

\* Largest token number: of the tokens a caller of the store passes, and of
\* the access tokens the broker issues (the refresh endpoint stops issuing
\* after it).
MaxToken == 2

\* Ticker symbols of the inputs and of the broker's account.
Symbols == {"AAPL", "MSFT"}
\* The account has no position entry for the symbol.
NoPos == -1
\* Arguments of an order call when none is running.
NoCall == [symbol |-> "", action |-> "", shares |-> 0, price |-> 0]

Str(c) == <<c>>
EmptyStr == <<>>

RECURSIVE TrimStart(_)
TrimStart(s) ==
  IF s # <<>> /\ Head(s) = " " THEN TrimStart(Tail(s)) ELSE s

RECURSIVE TrimEnd(_)
TrimEnd(s) ==
  IF s # <<>> /\ s[Len(s)] = " " THEN TrimEnd(SubSeq(s, 1, Len(s) - 1)) ELSE s

\* String.prototype.trim
Trim(s) == TrimEnd(TrimStart(s))

-----------------------------------------------------------------------------
(* state.ts: the credential store *)

\* A DELETE without its WHERE clause.
MutDeleteRow(table, p) == [q \in DOMAIN table |-> NoRow]

\* DELETE FROM <table> WHERE portfolio_id = ?
DeleteRow(table, p) == [table EXCEPT ![p] = NoRow]

\* INSERT ... ON CONFLICT(portfolio_id) DO UPDATE SET ... = excluded....
UpsertRow(table, p, row) == [table EXCEPT ![p] = Some(row)]

\* The row writeSchwabCredentials binds: `?? null` on the optional fields.
SchwabRow(creds) ==
  [access_token |-> creds.accessToken,
   refresh_token |-> creds.refreshToken,
   redirect_uri |-> creds.redirectUri,
   account_number |-> creds.accountNumber]

\* The row writeTradierCredentials binds: sandbox ? 1 : 0.
TradierRow(creds) ==
  [api_key |-> creds.apiKey,
   account_id |-> creds.accountId,
   sandbox |-> IF creds.sandbox THEN 1 ELSE 0]

\* readSchwabCredentials: null unless both tokens are non-empty.
readSchwabCredentials(p) ==
  IF schwab_credentials[p] = NoRow THEN None
  ELSE LET row == schwab_credentials[p][1] IN
       IF row.access_token = 0 \/ row.refresh_token = 0 THEN None
       ELSE Some([accessToken |-> row.access_token,
                  refreshToken |-> row.refresh_token,
                  redirectUri |-> row.redirect_uri,
                  accountNumber |-> row.account_number])

\* readTradierCredentials: null unless api_key has a non-blank character.
readTradierCredentials(p) ==
  IF tradier_credentials[p] = NoRow THEN None
  ELSE LET row == tradier_credentials[p][1] IN
       IF Trim(row.api_key) = EmptyStr THEN None
       ELSE Some([apiKey |-> row.api_key,
                  accountId |-> row.account_id,
                  sandbox |-> (row.sandbox = 1)])

\* getPortfolioBrokerage
getPortfolioBrokerage(p) ==
  IF readSchwabCredentials(p) # None THEN "schwab"
  ELSE IF readTradierCredentials(p) # None THEN "tradier"
  ELSE Null

\* A writeSchwabCredentials that leaves the Tradier table alone.
MutTradierTableAfterSchwabWrite(p) == tradier_credentials

\* The two statements of writeSchwabCredentials, as the store after them.
SchwabTableAfterWrite(p, creds) == UpsertRow(schwab_credentials, p, SchwabRow(creds))
TradierTableAfterSchwabWrite(p) == DeleteRow(tradier_credentials, p)

\* The two statements of writeTradierCredentials, as the store after them.
TradierTableAfterWrite(p, creds) == UpsertRow(tradier_credentials, p, TradierRow(creds))
SchwabTableAfterTradierWrite(p) == DeleteRow(schwab_credentials, p)

\* Credentials a caller may pass.  Access and refresh tokens are strings; the
\* refresh paths of trader.ts fall back to "" for the refresh token.
SchwabCredsInputs ==
  [accessToken : 0..MaxToken, refreshToken : 0..MaxToken,
   redirectUri : {Null, "uri"}, accountNumber : {Null, "acct"}]

TradierCredsInputs ==
  [apiKey : {EmptyStr, Str(" "), Str("k")},
   accountId : {NullStr, EmptyStr, Str("V")},
   sandbox : BOOLEAN]

\* writeSchwabCredentials(portfolioId, creds), run to completion.
writeSchwabCredentials(p, creds) ==
  /\ tradier_credentials' = TradierTableAfterSchwabWrite(p)
  /\ schwab_credentials' = SchwabTableAfterWrite(p, creds)
  /\ lastWritten' = [lastWritten EXCEPT ![p] = "schwab"]

\* writeTradierCredentials(portfolioId, creds), run to completion.
writeTradierCredentials(p, creds) ==
  /\ schwab_credentials' = SchwabTableAfterTradierWrite(p)
  /\ tradier_credentials' = TradierTableAfterWrite(p, creds)
  /\ lastWritten' = [lastWritten EXCEPT ![p] = "tradier"]

StoreWriteSchwab ==
  \E p \in Portfolios, creds \in SchwabCredsInputs :
    /\ writeSchwabCredentials(p, creds)
    /\ UNCHANGED <<cacheVars, configVars, processVars, inputVars, engineVars>>

StoreWriteTradier ==
  \E p \in Portfolios, creds \in TradierCredsInputs :
    /\ writeTradierCredentials(p, creds)
    /\ UNCHANGED <<cacheVars, configVars, processVars, inputVars, engineVars>>

\* The invocations that run in the one process main() sets up: the startup
\* run of the daily job, a cron-triggered run, and the requests the admin
\* server passes to verifyConnection and getPortfolioPositions.
Tasks == {"startup", "cron", "verify", "positions"}

\* Most broker calls one invocation makes.
MaxCalls == 2

\* The two credential writers, by the brokerage they write.
Writers == {"schwab", "tradier"}

\* No write-back is under way.
NoPending == [kind |-> "none", portfolio |-> 0, creds |-> None]

\* main() calls runCheck() itself once and schedules the cron callback, which
\* calls it on every tick.
Runners == {"startup", "cron"}

\* No invocation has started, no credential write is running and no run of
\* the daily job has been made.
ProcessAtRest ==
  /\ task = [t \in Tasks |-> [pc |-> "idle", left |-> 0]]
  /\ writer = [w \in Writers, p \in Portfolios |-> "idle"]
  /\ today = 1
  /\ lastProcessedDate = 0
  /\ job = [pc |-> "idle", date |-> 0, run |-> 1]
  /\ journal = <<>>
  /\ clientOf = [p \in Portfolios |-> 0]
  /\ clientLog = <<>>
  /\ profile = None
  /\ lookup = None
  /\ runs = [r \in Runners |->
       [pc |-> IF r = "startup" THEN "start" ELSE "wait", date |-> 0,
        attempt |-> 1, tick |-> 0]]
  /\ pending = NoPending

\* schwab-oauth.ts as the module is loaded: no login in progress, no pending
\* resolver and no pending portfolio. useRemoteCallback is whether
\* SCHWAB_REDIRECT_URI is set; flows are the flows started, exchange is the
\* callback awaiting auth.exchangeCode, outcomes is the history of the
\* callbacks answered.
LoginIdle(remote) ==
  [useRemoteCallback |-> remote, loginInProgress |-> FALSE,
   pendingResolveFlowComplete |-> 0, pendingPortfolioId |-> 0,
   flows |-> <<>>, exchange |-> None, outcomes |-> <<>>]

\* The whole process at rest, SCHWAB_REDIRECT_URI not set.
ProcessIdle ==
  /\ ProcessAtRest
  /\ login = LoginIdle(FALSE)

\* No entry point of the engine is running and none has run.
EngineAtRest ==
  /\ entry = "none"
  /\ portfolioId = 1
  /\ actions = <<>>
  /\ enterSignals = <<>>
  /\ exitSignals = <<>>
  /\ positions = None
  /\ summary = [successful |-> <<>>, failed |-> <<>>, skipped |-> <<>>]
  /\ pc = "idle"
  /\ idx = 0
  /\ cur = NoCall
  /\ phase = "none"
  /\ accountNumber = Null
  /\ accountId = NullStr
  /\ depth = 0
  /\ result = None
  /\ thrown = None
  /\ calls = <<>>

\* The engine at rest, before any entry point is called.
EngineIdle ==
  /\ ProcessIdle
  /\ schwabClientByPortfolio = [p \in Portfolios |-> FALSE]
  /\ accountHashByPortfolio = [p \in Portfolios |-> Null]
  /\ EngineAtRest

\* The store after initializeDatabase: both credential tables empty.
InitStore ==
  /\ schwab_credentials = [p \in Portfolios |-> NoRow]
  /\ tradier_credentials = [p \in Portfolios |-> NoRow]
  /\ lastWritten = [p \in Portfolios |-> "none"]
  /\ ENABLE_TRADING = TRUE
  /\ TRADIER_ENABLE_TRADING = TRUE
  /\ held = [s \in Symbols |-> NoPos]
  /\ EngineIdle

NextStore == StoreWriteSchwab \/ StoreWriteTradier

SpecStore == InitStore /\ [][NextStore]_vars

-----------------------------------------------------------------------------
(* trader.ts: errors, results, history *)

\* An Error object: name, code (SchwabAuthError), status (set by doPost), message.
Err(name, code, status, message) ==
  [name |-> name, code |-> code, status |-> status, message |-> message]

PlainError(message) == Err("Error", Null, 0, message)

\* isSchwabAuthError: name === "SchwabAuthError" and a string code.
isSchwabAuthError(error) == error.name = "SchwabAuthError" /\ error.code # Null

\* A test that also takes an HTTP 401 for an expired token.
MutIsTokenExpired(error) ==
  \/ isSchwabAuthError(error) /\ error.code = "TOKEN_EXPIRED"
  \/ error.status = 401

\* The test the catch blocks of placeBuyOrder, placeSellOrder and
\* getCurrentPositions make before refreshing and re-invoking themselves.
IsTokenExpired(error) ==
  isSchwabAuthError(error) /\ error.code = "TOKEN_EXPIRED"

\* A TradeExecutionResult.  error is the message (absent: <<>>), orderId the
\* broker's order number (absent: 0).
OrderResult(call, success, error, orderId) ==
  [symbol |-> call.symbol, action |-> call.action, shares |-> call.shares,
   price |-> call.price, success |-> success, error |-> error,
   orderId |-> orderId]

Failure(call, message) == OrderResult(call, FALSE, <<message>>, 0)
Success(call, orderId) == OrderResult(call, TRUE, <<>>, orderId)

EmptySummary == [successful |-> <<>>, failed |-> <<>>, skipped |-> <<>>]

\* One entry of the call history: a broker call or a store write made while
\* item idx of the running phase was handled, with the quantity the account
\* held of the order's symbol when the call was made.
Call(op, outcome, token, acct) ==
  [op |-> op, portfolio |-> portfolioId, phase |-> phase, item |-> idx,
   symbol |-> cur.symbol, side |-> cur.action, shares |-> cur.shares,
   token |-> token, acct |-> acct, outcome |-> outcome,
   holding |-> IF cur.symbol \in DOMAIN held THEN held[cur.symbol] ELSE NoPos]

\* The number the broker gives the order it accepts as its n-th call.
OrderIdOf(n) == n

\* How the engine goes on: return a result to the loop, go to a step, reject
\* the entry point's promise.
Return(r) ==
  /\ result' = Some(r)
  /\ pc' = "return"
  /\ UNCHANGED <<thrown, summary>>

Goto(l) ==
  /\ pc' = l
  /\ UNCHANGED <<result, thrown, summary>>

Reject(e) ==
  /\ pc' = "thrown"
  /\ thrown' = Some(e)
  /\ UNCHANGED <<result, summary>>

\* An executeTrades without the try around getCurrentPositions.
MutFetchFailed(e) == Reject(e)

\* The catch block of executeTrades around getCurrentPositions.
FetchFailed(e) ==
  /\ summary' = [summary EXCEPT !.failed = Append(@,
       [symbol |-> "ALL", action |-> "BUY", shares |-> 0, price |-> 0,
        success |-> FALSE,
        error |-> <<"Failed to fetch positions: ", e.message>>,
        orderId |-> 0])]
  /\ pc' = "done"
  /\ UNCHANGED <<result, thrown>>

\* The reply of verifyConnection; positionsCount is NoCount when the property
\* is absent.
NoCount == -1
VerifyResult(ok, message, count) ==
  [ok |-> ok, message |-> message, positionsCount |-> count]

\* A verifyConnection with no try around its body.
MutVerifyCatch(e) == Reject(e)

\* The catch block of verifyConnection.
VerifyCatch(e) ==
  /\ result' = Some(VerifyResult(FALSE, e.message, NoCount))
  /\ pc' = "done"
  /\ UNCHANGED <<thrown, summary>>

\* An error thrown by getCurrentPositions reaches its caller: the catch block
\* of executeTrades, the catch block of verifyConnection, or the caller of
\* getPortfolioPositions, which has no try.
FetchThrows(e) ==
  CASE entry = "verifyConnection" -> VerifyCatch(e)
    [] entry = "getPortfolioPositions" -> Reject(e)
    [] OTHER -> FetchFailed(e)

\* A catch block that refreshes and re-invokes the order call on any error.
MutOrderCatch(e) == Goto("refresh_catch")

\* The catch block of placeBuyOrder / placeSellOrder (Schwab path).
OrderCatch(e) ==
  IF IsTokenExpired(e)
    THEN Goto("refresh_catch")
    ELSE Return(Failure(cur, e.message))

\* An error thrown by getAccountHashFromApi or initializeSchwabClient: inside
\* the try of executeTrades when positions are fetched, outside every try when
\* an order is placed.
HashThrows(e) ==
  IF phase = "fetch" THEN FetchThrows(e) ELSE Reject(e)

\* An error thrown by a Tradier call: inside the try of the Tradier branch of
\* placeBuyOrder / placeSellOrder, or inside the try of executeTrades.
TradierThrows(e) ==
  IF phase = "fetch" THEN FetchThrows(e) ELSE Return(Failure(cur, e.message))

-----------------------------------------------------------------------------
(* Inputs and the broker *)

\* Share counts of the inputs: invalid, and more than any position held.
ShareValues == {0, 14}
Prices == {150}
\* Long quantity of a position the account holds.
HeldQty == 5
\* Longest action list, and most signals (enter and exit together) of a batch.
MaxActions == 2
MaxSignals == 2

EnginePortfolios == {1}

ActionInputs ==
  [symbol : Symbols, action : {"BUY", "SELL"}, shares : ShareValues, price : Prices]
EnterInputs == [symbol : Symbols, shares : ShareValues, current_price : Prices]
ExitInputs == [symbol : Symbols, current_price : Prices]

SeqsUpTo(S, n) == UNION {[1..k -> S] : k \in 0..n}

\* What an HTTP order submission can come back with.
PostOutcomes == {"ok", "401", "rejected", "network"}

\* The error doPost throws (!res.ok, with err.status), or fetch itself.
PostError(outcome) ==
  CASE outcome = "401" ->
         Err("Error", Null, 401, "Schwab place order failed: 401 Unauthorized")
    [] outcome = "rejected" ->
         Err("Error", Null, 400, "Schwab place order failed: 400 Bad Request - Insufficient funds")
    [] OTHER -> Err("Error", Null, 0, "fetch failed")

\* The error placeTradierOrder throws.
TradierPostError(outcome) ==
  CASE outcome = "401" -> PlainError("Tradier place order failed: 401 Unauthorized")
    [] outcome = "rejected" -> PlainError("Tradier place order failed: 400 Insufficient funds")
    [] OTHER -> PlainError("fetch failed")

\* What auth.refresh can come back with: new tokens with or without a refresh
\* token, a SchwabAuthError TOKEN_EXPIRED, another error.
RefreshOutcomes == {"ok_rt", "ok_no_rt", "expired", "error"}

\* The account hash getAccountNumbers() returns first.
AccountHash == "hash"
\* The account number the Tradier profile yields.
TradierAccount == Str("V")

\* The account after the broker filled an accepted order.
Filled(h, call) ==
  [h EXCEPT ![call.symbol] =
     IF call.action = "BUY"
       THEN (IF @ = NoPos THEN 0 ELSE @) + call.shares
       ELSE IF @ = NoPos \/ @ <= call.shares THEN 0 ELSE @ - call.shares]

\* The broker accepted the order: it fills it now or leaves it working.
BrokerAccepts == \E fill \in BOOLEAN : held' = IF fill THEN Filled(held, cur) ELSE held

-----------------------------------------------------------------------------
(* trader.ts: placing one order *)

\* A share test that lets negative counts through.
MutInvalidShares(shares) == shares = 0

\* if (shares <= 0)
InvalidShares(shares) == shares <= 0

\* A router that sends every portfolio to Schwab.
MutUsesTradier(brokerage) == FALSE

\* if (brokerage === "tradier"): the Tradier implementation is used; any other
\* value goes on to the Schwab code.
UsesTradier(brokerage) == brokerage = "tradier"

\* placeBuyOrder / placeSellOrder up to the first await of a broker call: the
\* share check, the brokerage lookup and the trading gates.
PlaceOrder ==
  /\ pc = "place"
  /\ LET brokerage == getPortfolioBrokerage(portfolioId) IN
     IF InvalidShares(cur.shares)
       THEN Return(Failure(cur, "Invalid share quantity: must be greater than 0"))
     ELSE IF UsesTradier(brokerage)
       THEN IF ~TRADIER_ENABLE_TRADING
              THEN Return(Failure(cur, "Trading is disabled (TRADIER_ENABLE_TRADING=false)"))
            ELSE IF readTradierCredentials(portfolioId) = None
              THEN Return(Failure(cur, "Tradier credentials missing for this portfolio."))
            ELSE Goto("tr_resolve")
     ELSE IF ~ENABLE_TRADING
       THEN Return(Failure(cur, "Trading is disabled (SCHWAB_ENABLE_TRADING=false)"))
     ELSE Goto("hash")
  /\ UNCHANGED <<storeVars, cacheVars, configVars, processVars, inputVars, held, positions,
                 loopVars, localVars, calls>>

\* initializeSchwabClient fails: no cached client and no readable credentials.
ClientInitFails(p) ==
  ~schwabClientByPortfolio[p] /\ readSchwabCredentials(p) = None

\* The step after the account hash is known.
AfterHash == IF phase = "fetch" THEN "get_account" ELSE "post1"

\* getAccountHashFromApi, preceded in getCurrentPositions by
\* initializeSchwabClient: the cached hash, or a client and a
\* getAccountNumbers() call whose first hash is cached.
getAccountHashFromApi ==
  /\ pc = "hash"
  /\ LET p == portfolioId
         cached == accountHashByPortfolio[p] IN
     IF phase # "fetch" /\ cached # Null
       THEN /\ accountNumber' = cached
            /\ Goto(AfterHash)
            /\ UNCHANGED <<cacheVars, calls>>
     ELSE IF ClientInitFails(p)
       THEN /\ HashThrows(PlainError("Schwab credentials are required for this portfolio."))
            /\ UNCHANGED <<cacheVars, calls, accountNumber>>
     ELSE IF cached # Null
       THEN /\ schwabClientByPortfolio' = [schwabClientByPortfolio EXCEPT ![p] = TRUE]
            /\ accountNumber' = cached
            /\ Goto(AfterHash)
            /\ UNCHANGED <<accountHashByPortfolio, calls>>
     ELSE \E outcome \in {"ok", "empty", "error"} :
            /\ schwabClientByPortfolio' = [schwabClientByPortfolio EXCEPT ![p] = TRUE]
            /\ calls' = Append(calls, Call("account_numbers", outcome, 0, Null))
            /\ CASE outcome = "ok" ->
                      /\ accountHashByPortfolio' =
                           [accountHashByPortfolio EXCEPT ![p] = AccountHash]
                      /\ accountNumber' = AccountHash
                      /\ Goto(AfterHash)
                 [] outcome = "empty" ->
                      /\ HashThrows(PlainError("Schwab getAccountNumbers() did not return a hash for this portfolio."))
                      /\ UNCHANGED <<accountHashByPortfolio, accountNumber>>
                 [] OTHER ->
                      /\ HashThrows(PlainError("getAccountNumbers failed"))
                      /\ UNCHANGED <<accountHashByPortfolio, accountNumber>>
  /\ UNCHANGED <<storeVars, configVars, processVars, inputVars, held, positions, loopVars,
                 accountId>>

\* placeOrderViaDirectPost: the credentials read and the first doPost.
placeOrderViaDirectPost ==
  /\ pc = "post1"
  /\ LET c == readSchwabCredentials(portfolioId) IN
     IF c = None
       THEN /\ OrderCatch(PlainError("Schwab credentials missing or no access token."))
            /\ UNCHANGED <<calls, held>>
       ELSE \E outcome \in PostOutcomes :
              /\ calls' = Append(calls,
                   Call("schwab_order", outcome, c[1].accessToken, accountNumber))
              /\ CASE outcome = "ok" ->
                        /\ BrokerAccepts
                        /\ Return(Success(cur, OrderIdOf(Len(calls) + 1)))
                   [] outcome = "401" ->
                        /\ Goto("refresh_post")
                        /\ UNCHANGED held
                   [] OTHER ->
                        /\ OrderCatch(PostError(outcome))
                        /\ UNCHANGED held
  /\ UNCHANGED <<storeVars, cacheVars, configVars, processVars, inputVars, positions,
                 loopVars, localVars>>

\* placeOrderViaDirectPost after the refresh: the credentials are read again
\* and the order is posted once more; without an access token the 401 error
\* of the first post is thrown.
placeOrderViaDirectPostRetry ==
  /\ pc = "post2"
  /\ LET c == readSchwabCredentials(portfolioId) IN
     IF c = None
       THEN /\ OrderCatch(PostError("401"))
            /\ UNCHANGED <<calls, held>>
       ELSE \E outcome \in PostOutcomes :
              /\ calls' = Append(calls,
                   Call("schwab_order", outcome, c[1].accessToken, accountNumber))
              /\ IF outcome = "ok"
                   THEN /\ BrokerAccepts
                        /\ Return(Success(cur, OrderIdOf(Len(calls) + 1)))
                   ELSE /\ OrderCatch(PostError(outcome))
                        /\ UNCHANGED held
  /\ UNCHANGED <<storeVars, cacheVars, configVars, processVars, inputVars, positions,
                 loopVars, localVars>>

\* A refresh that writes the stored credentials back unchanged.
MutRefreshedCreds(newAccess, newRefresh, current) ==
  [accessToken |-> current[1].accessToken,
   refreshToken |-> current[1].refreshToken,
   redirectUri |-> current[1].redirectUri,
   accountNumber |-> current[1].accountNumber]

\* A refresh write that keeps the tokens only.
MutRefreshedTokensOnly(newAccess, newRefresh, current) ==
  [accessToken |-> newAccess,
   refreshToken |-> IF newRefresh # 0 THEN newRefresh
                    ELSE IF current # None THEN current[1].refreshToken ELSE 0,
   redirectUri |-> Null,
   accountNumber |-> Null]

\* A refresh write with no fallback to the stored refresh token.
MutRefreshedNoFallback(newAccess, newRefresh, current) ==
  [accessToken |-> newAccess,
   refreshToken |-> newRefresh,
   redirectUri |-> IF current # None THEN current[1].redirectUri ELSE Null,
   accountNumber |-> IF current # None THEN current[1].accountNumber ELSE Null]

\* The credentials refreshTokensIfNeeded writes: the new access token, the new
\* refresh token or else the stored one or else "", the other fields as stored.
RefreshedCreds(newAccess, newRefresh, current) ==
  [accessToken |-> newAccess,
   refreshToken |-> IF newRefresh # 0 THEN newRefresh
                    ELSE IF current # None THEN current[1].refreshToken ELSE 0,
   redirectUri |-> IF current # None THEN current[1].redirectUri ELSE Null,
   accountNumber |-> IF current # None THEN current[1].accountNumber ELSE Null]

\* A refresh that lets the SDK's TOKEN_EXPIRED error through as it is.
MutRefreshError(outcome) ==
  IF outcome = "expired"
    THEN Err("SchwabAuthError", "TOKEN_EXPIRED", 0, "Token expired")
    ELSE PlainError("refresh failed")

\* The error refreshTokensIfNeeded throws when auth.refresh fails.
RefreshError(outcome) ==
  IF outcome = "expired"
    THEN PlainError("Refresh token expired. Please re-authenticate through Schwab's OAuth flow.")
    ELSE PlainError("refresh failed")

\* A refreshTokensIfNeeded that swallows the error and returns.
MutRefreshThrows(e) == Goto("done")

\* Where an error of refreshTokensIfNeeded goes: out of the catch of
\* placeOrderViaDirectPost into the catch of the order call; out of the catch
\* of the order call; out of getCurrentPositions into the catch of
\* executeTrades.
RefreshThrows(e) ==
  CASE pc = "refresh_post" -> OrderCatch(e)
    [] pc = "refresh_catch" -> Reject(e)
    [] OTHER -> FetchThrows(e)

\* Where a successful refresh goes on: the second post; the re-invocation of
\* the order call; the re-invocation of getCurrentPositions.
AfterRefresh ==
  CASE pc = "refresh_post" -> "post2"
    [] pc = "refresh_catch" -> "place"
    [] OTHER -> "fetch"

\* refreshTokensIfNeeded
refreshTokensIfNeeded ==
  /\ pc \in {"refresh_post", "refresh_catch", "refresh_fetch"}
  /\ LET p == portfolioId
         creds == readSchwabCredentials(p) IN
     IF creds = None
       THEN /\ RefreshThrows(PlainError("No refresh token for this portfolio; re-run Schwab OAuth login."))
            /\ UNCHANGED <<storeVars, cacheVars, calls, depth>>
       ELSE \E outcome \in RefreshOutcomes :
              /\ outcome \in {"ok_rt", "ok_no_rt"} => creds[1].accessToken < MaxToken
              /\ IF outcome \in {"ok_rt", "ok_no_rt"}
                  THEN LET newAccess == creds[1].accessToken + 1
                           newRefresh == IF outcome = "ok_rt"
                                           THEN creds[1].refreshToken + 1 ELSE 0
                           current == readSchwabCredentials(p)
                           written == RefreshedCreds(newAccess, newRefresh, current) IN
                       /\ writeSchwabCredentials(p, written)
                       /\ schwabClientByPortfolio' =
                            [schwabClientByPortfolio EXCEPT ![p] = FALSE]
                       /\ accountHashByPortfolio' =
                            [accountHashByPortfolio EXCEPT ![p] = Null]
                       /\ calls' = calls \o
                            <<Call("refresh", outcome, newAccess, Null),
                              Call("write_schwab", "ok", written.accessToken, Null)>>
                       /\ depth' = IF pc = "refresh_post" THEN depth ELSE depth + 1
                       /\ Goto(AfterRefresh)
                  ELSE /\ calls' = Append(calls, Call("refresh", outcome, 0, Null))
                       /\ RefreshThrows(RefreshError(outcome))
                       /\ UNCHANGED <<storeVars, cacheVars, depth>>
  /\ UNCHANGED <<configVars, processVars, inputVars, held, positions, phase, idx, cur,
                 localVars>>

\* A test that takes every stored identifier for absent.
MutIsBlank(s) == TRUE

\* A blank or absent account identifier: !creds.accountId?.trim()
IsBlank(s) == s = NullStr \/ Trim(s) = EmptyStr

\* The step after the Tradier account identifier is known.
AfterResolve == IF phase = "fetch" THEN "tr_positions" ELSE "tr_post"

\* Credentials written with another account of the user than the one the
\* lookup returned.
MutResolvedOther(creds, id) ==
  [apiKey |-> creds.apiKey, accountId |-> Str("W"), sandbox |-> creds.sandbox]

\* Credentials written with the sandbox flag left out.
MutResolvedCreds(creds, id) ==
  [apiKey |-> creds.apiKey, accountId |-> id, sandbox |-> FALSE]

\* The credentials resolveTradierAccountId writes back: the key and the
\* sandbox flag it was given, with the identifier the profile lookup returned.
ResolvedCreds(creds, id) ==
  [apiKey |-> creds.apiKey, accountId |-> id, sandbox |-> creds.sandbox]

\* resolveTradierAccountId: the stored identifier, trimmed, or a profile
\* lookup whose result is written to the store.
resolveTradierAccountId ==
  /\ pc = "tr_resolve"
  /\ LET p == portfolioId
         creds == readTradierCredentials(p)[1] IN
     IF ~IsBlank(creds.accountId)
       THEN /\ accountId' = Trim(creds.accountId)
            /\ Goto(AfterResolve)
            /\ UNCHANGED <<storeVars, calls>>
       ELSE \E outcome \in {"ok", "error"} :
              IF outcome = "ok"
                THEN /\ writeTradierCredentials(p,
                          ResolvedCreds(creds, TradierAccount))
                     /\ accountId' = TradierAccount
                     /\ calls' = calls \o
                          <<Call("tradier_profile", "ok", 0, Null),
                            Call("write_tradier", "ok", 0, Null)>>
                     /\ Goto(AfterResolve)
                ELSE /\ calls' = Append(calls, Call("tradier_profile", "error", 0, Null))
                     /\ TradierThrows(PlainError("Tradier profile failed"))
                     /\ UNCHANGED <<storeVars, accountId>>
  /\ UNCHANGED <<cacheVars, configVars, processVars, inputVars, held, positions, loopVars,
                 accountNumber>>

\* A catch block that submits the order again.
MutTradierOrderCatch(e) == Goto("tr_post")

\* The catch block around the Tradier order call: the message of the error
\* becomes the error of a failed result.
TradierOrderCatch(e) == Return(Failure(cur, e.message))

\* placeTradierOrder and the try/catch around it.
placeTradierOrder ==
  /\ pc = "tr_post"
  /\ \E outcome \in PostOutcomes :
       /\ calls' = Append(calls, Call("tradier_order", outcome, 0, Null))
       /\ IF outcome = "ok"
            THEN /\ BrokerAccepts
                 /\ Return(Success(cur, OrderIdOf(Len(calls) + 1)))
            ELSE /\ TradierOrderCatch(TradierPostError(outcome))
                 /\ UNCHANGED held
  /\ UNCHANGED <<storeVars, cacheVars, configVars, processVars, inputVars, positions,
                 loopVars, localVars>>

\* A summary that keeps one result per symbol and list.
MutRecordedOnce(s, r) ==
  LET list == IF r.success THEN s.successful ELSE s.failed IN
  IF \E k \in 1..Len(list) : list[k].symbol = r.symbol
    THEN s
    ELSE IF r.success THEN [s EXCEPT !.successful = Append(@, r)]
                      ELSE [s EXCEPT !.failed = Append(@, r)]

\* A summary that puts the newest result first.
MutRecordedFirst(s, r) ==
  IF r.success THEN [s EXCEPT !.successful = <<r>> \o @]
               ELSE [s EXCEPT !.failed = <<r>> \o @]

\* if (result.success) summary.successful.push(result)
\* else summary.failed.push(result)
Recorded(s, r) ==
  IF r.success THEN [s EXCEPT !.successful = Append(@, r)]
               ELSE [s EXCEPT !.failed = Append(@, r)]

\* The loop body after the order call returned: the result goes to
\* summary.successful or summary.failed and the loop moves on.
RecordResult ==
  /\ pc = "return"
  /\ summary' = Recorded(summary, result[1])
  /\ result' = None
  /\ cur' = NoCall
  /\ idx' = idx + 1
  /\ pc' = "loop"
  /\ UNCHANGED <<storeVars, cacheVars, configVars, processVars, inputVars, held, positions,
                 thrown, phase, depth, localVars, calls>>

-----------------------------------------------------------------------------
(* trader.ts: executeTradesFromActions *)

\* A gate that reads the Schwab flag for either brokerage.
MutTradingDisabled(brokerage) == brokerage \in {"schwab", "tradier"} /\ ~ENABLE_TRADING

\* const tradingDisabled = (brokerage === "schwab" && !ENABLE_TRADING) ||
\*                         (brokerage === "tradier" && !TRADIER_ENABLE_TRADING)
TradingDisabled(brokerage) ==
  \/ brokerage = "schwab" /\ ~ENABLE_TRADING
  \/ brokerage = "tradier" /\ ~TRADIER_ENABLE_TRADING

\* An entry point that goes on without a brokerage.
MutUnbound(brokerage) == FALSE

\* if (!brokerage) return summary
Unbound(brokerage) == brokerage = Null

\* executeTradesFromActions up to its loop: the brokerage lookup, the trading
\* gate, the unbound portfolio and the empty list.
ExecuteActions(lists) ==
  /\ pc = "idle"
  /\ \E acts \in lists, p \in EnginePortfolios :
       LET brokerage == getPortfolioBrokerage(p) IN
       /\ entry' = "executeTradesFromActions"
       /\ portfolioId' = p
       /\ actions' = acts
       /\ summary' = EmptySummary
       /\ IF \/ brokerage # Null /\ TradingDisabled(brokerage)
             \/ Unbound(brokerage)
             \/ Len(acts) = 0
            THEN pc' = "done" /\ UNCHANGED <<phase, idx>>
            ELSE pc' = "loop" /\ phase' = "action" /\ idx' = 1
  /\ UNCHANGED <<storeVars, cacheVars, configVars, processVars, enterSignals, exitSignals,
                 held, positions, result, thrown, cur, depth, localVars, calls>>

executeTradesFromActions == ExecuteActions(SeqsUpTo(ActionInputs, MaxActions))

\* for (const action of actions): the order call for the next action.
ActionsLoop ==
  /\ pc = "loop"
  /\ phase = "action"
  /\ IF idx > Len(actions)
       THEN pc' = "done" /\ UNCHANGED <<cur, depth>>
       ELSE /\ cur' = actions[idx]
            /\ depth' = 0
            /\ pc' = "place"
  /\ UNCHANGED <<storeVars, cacheVars, configVars, processVars, inputVars, held, positions,
                 result, thrown, summary, phase, idx, localVars, calls>>

\* The store of a process whose portfolio 1 is bound to Schwab, to Tradier
\* (with or without a stored account identifier) or to nothing.
InitialSchwabCreds ==
  [accessToken |-> 1, refreshToken |-> 1, redirectUri |-> "uri",
   accountNumber |-> "acct"]

InitialTradierCreds(acct) == [apiKey |-> Str("k"), accountId |-> acct, sandbox |-> TRUE]

InitBinding ==
  \/ /\ schwab_credentials = [p \in Portfolios |->
          IF p = 1 THEN Some(SchwabRow(InitialSchwabCreds)) ELSE NoRow]
     /\ tradier_credentials = [p \in Portfolios |-> NoRow]
     /\ lastWritten = [p \in Portfolios |-> IF p = 1 THEN "schwab" ELSE "none"]
  \/ /\ \E acct \in {NullStr, Str("V")} :
          tradier_credentials = [p \in Portfolios |->
            IF p = 1 THEN Some(TradierRow(InitialTradierCreds(acct))) ELSE NoRow]
     /\ schwab_credentials = [p \in Portfolios |-> NoRow]
     /\ lastWritten = [p \in Portfolios |-> IF p = 1 THEN "tradier" ELSE "none"]
  \/ /\ schwab_credentials = [p \in Portfolios |-> NoRow]
     /\ tradier_credentials = [p \in Portfolios |-> NoRow]
     /\ lastWritten = [p \in Portfolios |-> "none"]

\* The broker's account with the first symbol at quantity a and the others
\* at quantity b.
Holdings(a, b) == [s \in Symbols |-> IF s = "AAPL" THEN a ELSE b]

\* The account when executeTradesFromActions starts, which never reads it: one
\* symbol absent, one held.
ActionsHoldings == {Holdings(NoPos, HeldQty)}

\* The account when executeTrades starts: each symbol is absent, an entry of
\* quantity zero or a held position in one of the accounts.
SignalsHoldings ==
  {Holdings(NoPos, HeldQty), Holdings(0, NoPos), Holdings(HeldQty, 0)}

InitEngine(holdings) ==
  /\ InitBinding
  /\ ENABLE_TRADING \in BOOLEAN
  /\ TRADIER_ENABLE_TRADING \in BOOLEAN
  /\ held \in holdings
  /\ EngineIdle

OrderSteps ==
  \/ PlaceOrder
  \/ getAccountHashFromApi
  \/ placeOrderViaDirectPost
  \/ refreshTokensIfNeeded
  \/ placeOrderViaDirectPostRetry
  \/ resolveTradierAccountId
  \/ placeTradierOrder
  \/ RecordResult

NextActions == executeTradesFromActions \/ ActionsLoop \/ OrderSteps

SpecActions == InitEngine(ActionsHoldings) /\ [][NextActions]_vars

\* executeTradesFromActions on action lists for one symbol whose share counts
\* are negative, zero or positive.
ShareCheckInputs ==
  [symbol : {"AAPL"}, action : {"BUY", "SELL"}, shares : {-5, 0, 14}, price : Prices]

NextShares ==
  ExecuteActions(SeqsUpTo(ShareCheckInputs, MaxActions)) \/ ActionsLoop \/ OrderSteps

SpecShares == InitEngine(ActionsHoldings) /\ [][NextShares]_vars

-----------------------------------------------------------------------------
(* trader.ts: getCurrentPositions and executeTrades *)

\* The positions map built from the Schwab account: one entry per position,
\* longQuantity ?? 0.
SchwabPositionsMap(h) == h

\* The positions map built from getTradierPositions: entries with a quantity
\* above zero only.
TradierPositionsMap(h) == [s \in Symbols |-> IF h[s] > 0 THEN h[s] ELSE NoPos]

\* executeTrades up to the position fetch: the brokerage lookup, the trading
\* gate and the unbound portfolio.
executeTrades ==
  /\ pc = "idle"
  /\ \E enters \in SeqsUpTo(EnterInputs, MaxSignals),
        exits \in SeqsUpTo(ExitInputs, MaxSignals),
        p \in EnginePortfolios :
       LET brokerage == getPortfolioBrokerage(p) IN
       /\ Len(enters) + Len(exits) <= MaxSignals
       /\ entry' = "executeTrades"
       /\ portfolioId' = p
       /\ enterSignals' = enters
       /\ exitSignals' = exits
       /\ summary' = EmptySummary
       /\ IF \/ brokerage # Null /\ TradingDisabled(brokerage)
             \/ Unbound(brokerage)
            THEN pc' = "done" /\ UNCHANGED <<phase, depth>>
            ELSE pc' = "fetch" /\ phase' = "fetch" /\ depth' = 0
  /\ UNCHANGED <<storeVars, cacheVars, configVars, processVars, actions, held, positions,
                 result, thrown, idx, cur, localVars, calls>>

\* getCurrentPositions up to its first broker call: the brokerage lookup and
\* the Tradier credentials.
getCurrentPositions ==
  /\ pc = "fetch"
  /\ LET brokerage == getPortfolioBrokerage(portfolioId) IN
     IF UsesTradier(brokerage)
       THEN IF readTradierCredentials(portfolioId) = None
              THEN FetchThrows(PlainError("Tradier credentials are required for this portfolio. Connect via Tradier in the UI."))
              ELSE Goto("tr_resolve")
       ELSE Goto("hash")
  /\ UNCHANGED <<storeVars, cacheVars, configVars, processVars, inputVars, held, positions,
                 loopVars, localVars, calls>>

\* The loops of executeTrades start with the fetched map.
StartLoops(map) ==
  /\ positions' = Some(map)
  /\ phase' = "enter"
  /\ idx' = 1
  /\ pc' = "loop"
  /\ UNCHANGED <<result, thrown, summary>>

\* getCurrentPositions hands its map to verifyConnection or
\* getPortfolioPositions.
MapReturned(map) ==
  /\ positions' = Some(map)
  /\ pc' = "mapped"
  /\ UNCHANGED <<phase, idx, result, thrown, summary>>

\* getCurrentPositions returns its map to its caller.
FetchReturns(map) ==
  IF entry \in {"verifyConnection", "getPortfolioPositions"}
    THEN MapReturned(map)
    ELSE StartLoops(map)

\* The positions of the Tradier account with the given identifier: the
\* account of the profile's first open account number, or another account of
\* the same user, which holds nothing.
TradierHoldings(id) ==
  IF id = TradierAccount THEN held ELSE [s \in Symbols |-> NoPos]

\* getCurrentPositions, Schwab: getAccountByNumber and its catch block.
getAccountByNumber ==
  /\ pc = "get_account"
  /\ \E outcome \in {"ok", "TOKEN_EXPIRED", "error"} :
       /\ calls' = Append(calls, Call("account_by_number", outcome, 0, accountNumber))
       /\ CASE outcome = "ok" -> FetchReturns(SchwabPositionsMap(held))
            [] outcome = "TOKEN_EXPIRED" ->
                 IF IsTokenExpired(Err("SchwabAuthError", "TOKEN_EXPIRED", 0, "Token expired"))
                   THEN Goto("refresh_fetch") /\ UNCHANGED <<positions, phase, idx>>
                   ELSE FetchThrows(PlainError("Token expired"))
                        /\ UNCHANGED <<positions, phase, idx>>
            [] OTHER ->
                 FetchThrows(PlainError("getAccountByNumber failed"))
                 /\ UNCHANGED <<positions, phase, idx>>
  /\ UNCHANGED <<storeVars, cacheVars, configVars, processVars, inputVars, held, cur, depth,
                 localVars>>

\* getCurrentPositions, Tradier: getTradierPositions.
getTradierPositions ==
  /\ pc = "tr_positions"
  /\ \E outcome \in {"ok", "error"} :
       /\ calls' = Append(calls, Call("tradier_positions", outcome, 0, Null))
       /\ IF outcome = "ok"
            THEN FetchReturns(TradierPositionsMap(TradierHoldings(accountId)))
            ELSE FetchThrows(PlainError("Tradier positions failed"))
                 /\ UNCHANGED <<positions, phase, idx>>
  /\ UNCHANGED <<storeVars, cacheVars, configVars, processVars, inputVars, held, cur, depth,
                 localVars>>

\* A holding test with the wrong threshold.
MutAlreadyHolding(map, symbol) == map[symbol] # NoPos /\ map[symbol] > HeldQty

\* position && position.longQuantity > 0
AlreadyHolding(map, symbol) == map[symbol] # NoPos /\ map[symbol] > 0

\* An exit test that forgets the zero quantity.
MutNothingToExit(map, symbol) == map[symbol] = NoPos

\* !position || position.longQuantity === 0
NothingToExit(map, symbol) == map[symbol] = NoPos \/ map[symbol] = 0

\* The order call of an enter signal.
BuyCall(signal) ==
  [symbol |-> signal.symbol, action |-> "BUY", shares |-> signal.shares,
   price |-> signal.current_price]

\* The order call of an exit signal: sharesToSell = position.longQuantity.
SellCall(signal, map) ==
  [symbol |-> signal.symbol, action |-> "SELL", shares |-> map[signal.symbol],
   price |-> signal.current_price]

\* Loops that look at the live account for every decision.
MutDecisionMap == SchwabPositionsMap(held)

\* The map the loops of executeTrades decide on.
DecisionMap == positions[1]

\* for (const signal of signals.enterSignals)
EnterLoop ==
  /\ pc = "loop"
  /\ phase = "enter"
  /\ IF idx > Len(enterSignals)
       THEN /\ phase' = "exit"
            /\ idx' = 1
            /\ UNCHANGED <<pc, summary, cur, depth>>
     ELSE LET signal == enterSignals[idx] IN
       IF AlreadyHolding(DecisionMap, signal.symbol)
         THEN /\ summary' = [summary EXCEPT !.skipped = Append(@,
                   [symbol |-> signal.symbol,
                    reason |-> <<"Already holding ", DecisionMap[signal.symbol], " shares">>])]
              /\ idx' = idx + 1
              /\ UNCHANGED <<pc, phase, cur, depth>>
         ELSE /\ cur' = BuyCall(signal)
              /\ depth' = 0
              /\ pc' = "place"
              /\ UNCHANGED <<summary, phase, idx>>
  /\ UNCHANGED <<storeVars, cacheVars, configVars, processVars, inputVars, held, positions,
                 result, thrown, localVars, calls>>

\* for (const signal of signals.exitSignals)
ExitLoop ==
  /\ pc = "loop"
  /\ phase = "exit"
  /\ IF idx > Len(exitSignals)
       THEN /\ pc' = "done"
            /\ UNCHANGED <<summary, idx, cur, depth>>
     ELSE LET signal == exitSignals[idx] IN
       IF NothingToExit(DecisionMap, signal.symbol)
         THEN /\ summary' = [summary EXCEPT !.skipped = Append(@,
                   [symbol |-> signal.symbol, reason |-> <<"No position to exit">>])]
              /\ idx' = idx + 1
              /\ UNCHANGED <<pc, cur, depth>>
         ELSE /\ cur' = SellCall(signal, DecisionMap)
              /\ depth' = 0
              /\ pc' = "place"
              /\ UNCHANGED <<summary, idx>>
  /\ UNCHANGED <<storeVars, cacheVars, configVars, processVars, inputVars, held, positions,
                 result, thrown, phase, localVars, calls>>

NextSignals ==
  \/ executeTrades
  \/ getCurrentPositions
  \/ getAccountByNumber
  \/ getTradierPositions
  \/ EnterLoop
  \/ ExitLoop
  \/ OrderSteps

SpecSignals == InitEngine(SignalsHoldings) /\ [][NextSignals]_vars

\* Both batch entry points of the trading engine.
NextBatch == executeTradesFromActions \/ ActionsLoop \/ NextSignals

SpecBatch == InitEngine(ActionsHoldings) /\ [][NextBatch]_vars

\* Batches of a process that has trading switched on for both brokerages.
InitEnabled ==
  /\ InitEngine(ActionsHoldings)
  /\ ENABLE_TRADING = TRUE
  /\ TRADIER_ENABLE_TRADING = TRUE

SpecEnabled == InitEnabled /\ [][NextBatch]_vars

\* executeTradesFromActions alone, with trading switched on.
SpecEnabledActions == InitEnabled /\ [][NextActions]_vars

-----------------------------------------------------------------------------
(* trader.ts: the token-save callback of the Schwab client *)

\* oauthConfig.save of initializeSchwabClient: the SDK client has refreshed
\* the tokens on its own while making getAccountNumbers() or
\* getAccountByNumber() and hands them over; the callback writes them with
\* the stored redirect URI and account number and leaves the caches alone.
\* The SDK has tokens to refresh only when oauthConfig.load found some.
SaveTokens ==
  /\ pc \in {"hash", "get_account"}
  /\ LET p == portfolioId
         current == readSchwabCredentials(p) IN
     /\ pc = "hash" => accountHashByPortfolio[p] = Null
     /\ current # None
     /\ current[1].accessToken < MaxToken
     /\ \E outcome \in {"ok_rt", "ok_no_rt"} :
          LET newAccess == current[1].accessToken + 1
              newRefresh == IF outcome = "ok_rt"
                              THEN current[1].refreshToken + 1 ELSE 0
              written == RefreshedCreds(newAccess, newRefresh, current) IN
          /\ writeSchwabCredentials(p, written)
          /\ calls' = calls \o
               <<Call("sdk_refresh", outcome, newAccess, Null),
                 Call("write_schwab", "ok", written.accessToken, Null)>>
     /\ schwabClientByPortfolio' = [schwabClientByPortfolio EXCEPT ![p] = TRUE]
  /\ UNCHANGED <<accountHashByPortfolio, configVars, processVars, inputVars, held, positions,
                 ctlVars, loopVars, localVars>>

\* A process whose portfolio 1 is bound to Schwab, with or without a stored
\* redirect URI and account number, and has trading switched on.
InitSchwab ==
  /\ \E uri \in {Null, "uri"}, acct \in {Null, "acct"} :
       schwab_credentials = [p \in Portfolios |->
         IF p = 1
           THEN Some(SchwabRow([InitialSchwabCreds EXCEPT
                  !.redirectUri = uri, !.accountNumber = acct]))
           ELSE NoRow]
  /\ tradier_credentials = [p \in Portfolios |-> NoRow]
  /\ lastWritten = [p \in Portfolios |-> IF p = 1 THEN "schwab" ELSE "none"]
  /\ ENABLE_TRADING = TRUE
  /\ TRADIER_ENABLE_TRADING = FALSE
  /\ held \in ActionsHoldings
  /\ EngineIdle

\* executeTrades on a Schwab portfolio whose client may refresh on its own.
NextSchwab ==
  \/ executeTrades
  \/ getCurrentPositions
  \/ getAccountHashFromApi
  \/ SaveTokens
  \/ getAccountByNumber
  \/ refreshTokensIfNeeded
  \/ EnterLoop
  \/ ExitLoop
  \/ PlaceOrder
  \/ placeOrderViaDirectPost
  \/ placeOrderViaDirectPostRetry
  \/ RecordResult

SpecSchwab == InitSchwab /\ [][NextSchwab]_vars

-----------------------------------------------------------------------------
(* index.ts and schwab-oauth.ts: several runs of one process, and the OAuth
   callback between them *)

\* Most runs of the trade engine in one behaviour.
MaxRuns == 2

\* The runs started so far.
Runs == 1 + Cardinality({k \in 1..Len(calls) : calls[k].op = "run_end"})

\* The entry point has returned or thrown to runCheck, and a later run (the
\* next portfolio's turn, or the next cron tick) finds the process with its
\* store and its caches as they are.
NextRun ==
  /\ pc \in {"done", "thrown"}
  /\ Runs < MaxRuns
  /\ calls' = Append(calls, Call("run_end", pc, 0, Null))
  /\ entry' = "none"
  /\ actions' = <<>>
  /\ enterSignals' = <<>>
  /\ exitSignals' = <<>>
  /\ positions' = None
  /\ summary' = EmptySummary
  /\ pc' = "idle"
  /\ idx' = 0
  /\ cur' = NoCall
  /\ phase' = "none"
  /\ accountNumber' = Null
  /\ accountId' = NullStr
  /\ depth' = 0
  /\ result' = None
  /\ thrown' = None
  /\ UNCHANGED <<storeVars, cacheVars, configVars, processVars, portfolioId, held>>

\* clearSchwabCachesForPortfolio(portfolioId): both cache entries of the
\* portfolio are dropped.
clearSchwabCachesForPortfolio(p) ==
  /\ schwabClientByPortfolio' = [schwabClientByPortfolio EXCEPT ![p] = FALSE]
  /\ accountHashByPortfolio' = [accountHashByPortfolio EXCEPT ![p] = Null]

\* The successful path of the OAuth callback up to its store write: the code
\* is exchanged for tokens, getAccounts() may give an account number, and the
\* credentials are written with the redirect URI of the flow.
ExchangeCodeAndWrite(p) ==
  /\ pc = "idle"
  /\ Len(calls) > 0
  /\ calls[Len(calls)].op # "oauth_callback"
  /\ \E acct \in {Null, "acct"} :
       writeSchwabCredentials(p, [accessToken |-> 1, refreshToken |-> 1,
                                  redirectUri |-> "uri", accountNumber |-> acct])
  /\ calls' = Append(calls, Call("oauth_callback", "ok", 1, Null))
  /\ UNCHANGED <<configVars, processVars, inputVars, held, positions, ctlVars, loopVars,
                 localVars>>

\* A callback that leaves the caches as they are.
MutHandleSchwabCallback ==
  \E p \in EnginePortfolios : ExchangeCodeAndWrite(p) /\ UNCHANGED cacheVars

\* handleSchwabCallback, and the local callback of startSchwabLoginFlow, when
\* the token exchange succeeds: the write, then the eviction.
handleSchwabCallback ==
  \E p \in EnginePortfolios :
    ExchangeCodeAndWrite(p) /\ clearSchwabCachesForPortfolio(p)

\* The action of the batches of such a process, and its lists of up to n
\* actions.
SessionInputs ==
  [symbol : {"AAPL"}, action : {"BUY"}, shares : {14}, price : Prices]

SessionLists(n) == SeqsUpTo(SessionInputs, n)

\* Runs of executeTradesFromActions on a Schwab portfolio, with OAuth
\* re-authentications between the runs.
NextReauth ==
  \/ ExecuteActions(SessionLists(1))
  \/ ActionsLoop
  \/ PlaceOrder
  \/ getAccountHashFromApi
  \/ placeOrderViaDirectPost
  \/ refreshTokensIfNeeded
  \/ placeOrderViaDirectPostRetry
  \/ RecordResult
  \/ NextRun
  \/ handleSchwabCallback

SpecReauth == InitSchwab /\ [][NextReauth]_vars

\* A process whose portfolio 1 is bound to Tradier, with a stored account
\* identifier, a blank one or none, and has Tradier trading switched on.
InitTradier ==
  /\ \E acct \in {NullStr, Str(" "), Str("V")} :
       tradier_credentials = [p \in Portfolios |->
         IF p = 1 THEN Some(TradierRow(InitialTradierCreds(acct))) ELSE NoRow]
  /\ schwab_credentials = [p \in Portfolios |-> NoRow]
  /\ lastWritten = [p \in Portfolios |-> IF p = 1 THEN "tradier" ELSE "none"]
  /\ ENABLE_TRADING \in BOOLEAN
  /\ TRADIER_ENABLE_TRADING = TRUE
  /\ held \in ActionsHoldings
  /\ EngineIdle

\* Runs of executeTradesFromActions on a Tradier portfolio.
NextTradier ==
  \/ ExecuteActions(SessionLists(2))
  \/ ActionsLoop
  \/ PlaceOrder
  \/ resolveTradierAccountId
  \/ placeTradierOrder
  \/ RecordResult
  \/ NextRun

SpecTradier == InitTradier /\ [][NextTradier]_vars

-----------------------------------------------------------------------------
(* Reading the history and the summary *)

OrderOps == {"schwab_order", "tradier_order"}
FetchOps == {"account_by_number", "tradier_positions"}
OrderPhases == {"action", "enter", "exit"}

\* Indices of the history entries made while item i of phase ph was handled.
CallsAt(ph, i) ==
  {k \in 1..Len(calls) : calls[k].phase = ph /\ calls[k].item = i}

\* The order submissions and the auth.refresh calls among them.
Submissions(ph, i) == {k \in CallsAt(ph, i) : calls[k].op \in OrderOps}
Refreshes(ph, i) == {k \in CallsAt(ph, i) : calls[k].op = "refresh"}

\* The items of phase ph that left an entry in the history.
Items(ph) ==
  {calls[k].item : k \in {j \in 1..Len(calls) : calls[j].phase = ph}}

CountOf(seq, Test(_)) == Cardinality({k \in 1..Len(seq) : Test(seq[k])})

\* The results of the order calls, successful and failed.
Results == summary.successful \o summary.failed

\* The positions map executeTrades fetched.
Snapshot == positions[1]

\* Action i of executeTradesFromActions has its result in the summary.
Handled(i) == phase = "action" /\ idx > i

\* Enter / exit signal i of executeTrades has been skipped or has its result
\* in the summary.
EnterHandled(i) == (phase = "enter" /\ idx > i) \/ phase = "exit"
ExitHandled(i) == phase = "exit" /\ idx > i

-----------------------------------------------------------------------------
(* C1 *)

AtMostOneRecord(p) ==
  ~(schwab_credentials[p] # NoRow /\ tradier_credentials[p] # NoRow)

RecordIsLastWritten(p) ==
  /\ lastWritten[p] = "schwab" =>
       schwab_credentials[p] # NoRow /\ tradier_credentials[p] = NoRow
  /\ lastWritten[p] = "tradier" =>
       tradier_credentials[p] # NoRow /\ schwab_credentials[p] = NoRow
  /\ lastWritten[p] = "none" =>
       schwab_credentials[p] = NoRow /\ tradier_credentials[p] = NoRow

\* C1 as stated: after any sequence of completed credential writes every
\* portfolio has at most one credential record, of the brokerage written last,
\* and getPortfolioBrokerage returns that brokerage.
C1_Original ==
  \A p \in Portfolios :
    /\ AtMostOneRecord(p)
    /\ RecordIsLastWritten(p)
    /\ lastWritten[p] # "none" => getPortfolioBrokerage(p) = lastWritten[p]

\* The stored record is one the readers accept.
RecordReadable(p) ==
  \/ /\ schwab_credentials[p] # NoRow
     /\ schwab_credentials[p][1].access_token # 0
     /\ schwab_credentials[p][1].refresh_token # 0
  \/ /\ tradier_credentials[p] # NoRow
     /\ Trim(tradier_credentials[p][1].api_key) # EmptyStr

\* C1 amended: after any sequence of completed credential writes every
\* portfolio has at most one record, of the brokerage written last;
\* getPortfolioBrokerage returns that brokerage when the record holds a
\* non-empty access token and refresh token (Schwab) or a non-blank API key
\* (Tradier), and null otherwise.
C1_ExclusiveBinding ==
  \A p \in Portfolios :
    /\ AtMostOneRecord(p)
    /\ RecordIsLastWritten(p)
    /\ getPortfolioBrokerage(p) =
         (IF RecordReadable(p) THEN lastWritten[p] ELSE Null)

\* Writes of both brokerages have completed: one portfolio reads back as
\* Schwab, the other as Tradier.
C1_Witness ==
  \E p, q \in Portfolios :
    /\ p # q
    /\ lastWritten[p] = "schwab" /\ getPortfolioBrokerage(p) = "schwab"
    /\ lastWritten[q] = "tradier" /\ getPortfolioBrokerage(q) = "tradier"

-----------------------------------------------------------------------------
(* C2 *)

\* C2: while one order is handled by placeBuyOrder / placeSellOrder, whatever
\* the broker answers, auth.refresh is called at most once and the order is
\* submitted at most twice.
C2_BoundedRetry ==
  \A ph \in OrderPhases : \A i \in Items(ph) :
    /\ Cardinality(Refreshes(ph, i)) <= 1
    /\ Cardinality(Submissions(ph, i)) <= 2

\* A Schwab order answered 401 on both submissions, with one refresh between
\* them, has produced its (failed) result.
C2_Witness ==
  /\ pc = "return"
  /\ ~result[1].success
  /\ Cardinality(Refreshes(phase, idx)) = 1
  /\ \E k1, k2 \in Submissions(phase, idx) :
       /\ k1 < k2
       /\ calls[k1].op = "schwab_order" /\ calls[k1].outcome = "401"
       /\ calls[k2].op = "schwab_order" /\ calls[k2].outcome = "401"

-----------------------------------------------------------------------------
(* C3 *)

\* The first submission of action i was answered 401, a later one accepted.
RetriedOk(i) ==
  \E k1, k2 \in Submissions("action", i) :
    k1 < k2 /\ calls[k1].outcome = "401" /\ calls[k2].outcome = "ok"

\* No other action of the list names the symbol of action i.
OnlyActionFor(i) ==
  \A j \in 1..Len(actions) : j # i => actions[j].symbol # actions[i].symbol

\* C3: when the first submission of an action is answered 401 and the
\* resubmission is accepted, the summary holds exactly one successful result
\* for the symbol, with the order id of the second submission, and no failed
\* one; exactly two submissions were made; and between them the token the
\* refresh issued was written to the store, and the second submission used it.
C3_RetrySucceeds ==
  \A i \in 1..Len(actions) :
    (Handled(i) /\ RetriedOk(i) /\ OnlyActionFor(i)) =>
      LET subs == Submissions("action", i)
          k1 == CHOOSE k \in subs : \A j \in subs : k <= j
          k2 == CHOOSE k \in subs : \A j \in subs : j <= k
          IsSym(r) == r.symbol = actions[i].symbol
      IN /\ Cardinality(subs) = 2
         /\ CountOf(summary.successful, IsSym) = 1
         /\ \A n \in 1..Len(summary.successful) :
              IsSym(summary.successful[n]) =>
                summary.successful[n].orderId = OrderIdOf(k2)
         /\ CountOf(summary.failed, IsSym) = 0
         /\ \E kr, kw \in CallsAt("action", i) :
              /\ k1 < kr /\ kr < kw /\ kw < k2
              /\ calls[kr].op = "refresh"
              /\ calls[kw].op = "write_schwab"
              /\ calls[kr].token # calls[k1].token
              /\ calls[kw].token = calls[kr].token
              /\ calls[k2].token = calls[kr].token

\* An action retried after a 401 and accepted, in a list of two actions.
C3_Witness ==
  /\ Len(actions) = 2
  /\ pc = "done"
  /\ \E i \in 1..Len(actions) : Handled(i) /\ RetriedOk(i) /\ OnlyActionFor(i)

-----------------------------------------------------------------------------
(* C4 *)

\* C4 as stated: for a portfolio bound to a brokerage with trading enabled,
\* executeTradesFromActions never throws, and when it returns every action of
\* the list has been attempted and has its result in the summary.
C4_Original ==
  (entry = "executeTradesFromActions" /\ phase = "action") =>
    /\ pc # "thrown"
    /\ pc = "done" => Len(Results) = Len(actions)

-----------------------------------------------------------------------------
(* C5 *)

\* The first submission of action i failed with a broker rejection or a
\* transport error.
NonAuthFailure(i) ==
  \E k \in Submissions("action", i) :
    /\ \A j \in Submissions("action", i) : k <= j
    /\ calls[k].outcome \in {"rejected", "network"}

\* The message of the error that submission threw.
SubmissionError(call) ==
  IF call.op = "schwab_order"
    THEN PostError(call.outcome).message
    ELSE TradierPostError(call.outcome).message

\* C5: when the submission of an action fails with an error that is not
\* auth-specific, that submission is the only one made for the action, no
\* token refresh is made, the entry point does not throw, a failed result with
\* the broker's message is recorded, and the loop goes on to the next action.
C5_NoRetry ==
  \A i \in 1..Len(actions) :
    NonAuthFailure(i) =>
      LET k == CHOOSE j \in Submissions("action", i) : TRUE IN
      /\ Cardinality(Submissions("action", i)) = 1
      /\ Refreshes("action", i) = {}
      /\ ~(pc = "thrown" /\ idx = i)
      /\ Handled(i) =>
           \E n \in 1..Len(summary.failed) :
             summary.failed[n] = Failure(actions[i], SubmissionError(calls[k]))
      /\ (Handled(i) /\ i < Len(actions)) =>
           /\ pc = "done" => idx = Len(actions) + 1
           /\ idx = i + 1 => (pc = "loop" \/ cur = actions[i + 1])

\* A Schwab order was rejected by the broker and the next action is being
\* placed.
C5_Witness ==
  \E i \in 1..Len(actions) :
    /\ NonAuthFailure(i)
    /\ \E k \in Submissions("action", i) :
         calls[k].op = "schwab_order" /\ calls[k].outcome = "rejected"
    /\ Handled(i)
    /\ idx = i + 1
    /\ pc = "place"

-----------------------------------------------------------------------------
(* C6 *)

\* C6: in executeTrades, an exit signal whose symbol has no entry or a long
\* quantity of zero in the fetched positions is skipped with reason
\* "No position to exit" and nothing is submitted for it; every other exit
\* signal gets exactly one SELL order call, for the fetched long quantity.
C6_ExitSignals ==
  phase = "exit" =>
    /\ \A i \in 1..Len(exitSignals) :
         ExitHandled(i) =>
           LET sym == exitSignals[i].symbol IN
           IF Snapshot[sym] = NoPos \/ Snapshot[sym] = 0
             THEN CallsAt("exit", i) = {}
             ELSE \A k \in Submissions("exit", i) :
                    /\ calls[k].symbol = sym
                    /\ calls[k].side = "SELL"
                    /\ calls[k].shares = Snapshot[sym]
    /\ \A sym \in Symbols :
         LET handled == {i \in 1..Len(exitSignals) :
                           ExitHandled(i) /\ exitSignals[i].symbol = sym}
             IsSell(r) == r.symbol = sym /\ r.action = "SELL"
             IsFullSell(r) ==
               /\ IsSell(r)
               /\ r.shares = Snapshot[sym]
               /\ \E i \in handled : r.price = exitSignals[i].current_price
             IsSkip(r) ==
               /\ r.symbol = sym
               /\ Len(r.reason) = 1
               /\ r.reason[1] = "No position to exit"
         IN IF Snapshot[sym] = NoPos \/ Snapshot[sym] = 0
              THEN /\ CountOf(summary.skipped, IsSkip) = Cardinality(handled)
                   /\ CountOf(Results, IsSell) = 0
              ELSE /\ CountOf(summary.skipped, IsSkip) = 0
                   /\ CountOf(Results, IsSell) = Cardinality(handled)
                   /\ CountOf(Results, IsFullSell) = Cardinality(handled)

\* Two exit signals handled: one skipped for a zero-quantity entry, one sold
\* in full.
C6_Witness ==
  /\ pc = "done"
  /\ phase = "exit"
  /\ \E i, j \in 1..Len(exitSignals) :
       /\ Snapshot[exitSignals[i].symbol] = 0
       /\ Snapshot[exitSignals[j].symbol] = HeldQty
  /\ Len(summary.skipped) = 1
  /\ \E n \in 1..Len(summary.successful) :
       /\ summary.successful[n].action = "SELL"
       /\ summary.successful[n].shares = HeldQty

-----------------------------------------------------------------------------
(* C7 *)

\* C7: in executeTrades, an enter signal whose symbol has a long quantity
\* above zero in the fetched positions is skipped with a reason naming that
\* quantity and nothing is submitted for it; every other enter signal gets
\* exactly one BUY order call, for the signal's shares at its current price.
C7_EnterSignals ==
  phase \in {"enter", "exit"} =>
    /\ \A i \in 1..Len(enterSignals) :
         EnterHandled(i) =>
           LET sym == enterSignals[i].symbol IN
           IF Snapshot[sym] # NoPos /\ Snapshot[sym] > 0
             THEN CallsAt("enter", i) = {}
             ELSE \A k \in Submissions("enter", i) :
                    /\ calls[k].symbol = sym
                    /\ calls[k].side = "BUY"
                    /\ calls[k].shares = enterSignals[i].shares
    /\ \A sym \in Symbols :
         LET handled == {i \in 1..Len(enterSignals) :
                           EnterHandled(i) /\ enterSignals[i].symbol = sym}
             IsBuy(r) == r.symbol = sym /\ r.action = "BUY"
             IsSkip(r) ==
               /\ r.symbol = sym
               /\ Len(r.reason) = 3
               /\ r.reason[1] = "Already holding "
               /\ r.reason[2] = Snapshot[sym]
               /\ r.reason[3] = " shares"
         IN IF Snapshot[sym] # NoPos /\ Snapshot[sym] > 0
              THEN /\ CountOf(summary.skipped, IsSkip) = Cardinality(handled)
                   /\ CountOf(Results, IsBuy) = 0
              ELSE /\ CountOf(summary.skipped, IsSkip) = 0
                   /\ CountOf(Results, IsBuy) = Cardinality(handled)
                   /\ \A i \in handled :
                        LET IsBuyOf(r) ==
                              /\ IsBuy(r)
                              /\ r.shares = enterSignals[i].shares
                              /\ r.price = enterSignals[i].current_price
                        IN CountOf(Results, IsBuyOf) =
                             Cardinality({j \in handled :
                                            enterSignals[j] = enterSignals[i]})

\* Two enter signals handled: one skipped for a held position, one bought.
C7_Witness ==
  /\ pc = "done"
  /\ phase = "exit"
  /\ Len(enterSignals) = 2
  /\ \E n \in 1..Len(summary.skipped) :
       /\ Len(summary.skipped[n].reason) = 3
       /\ summary.skipped[n].reason[2] = HeldQty
  /\ \E n \in 1..Len(summary.successful) :
       /\ summary.successful[n].action = "BUY"
       /\ summary.successful[n].shares \in ShareValues \ {0}

-----------------------------------------------------------------------------
(* C8 *)

\* C8 as stated: in executeTradesFromActions a SELL action never produces an
\* order for more shares than the account holds of the symbol, and a SELL for
\* a symbol that is not held produces no order.
C8_Original ==
  \A k \in 1..Len(calls) :
    (calls[k].phase = "action" /\ calls[k].op \in OrderOps
       /\ calls[k].side = "SELL" /\ calls[k].outcome = "ok") =>
      /\ calls[k].holding > 0
      /\ calls[k].shares <= calls[k].holding

-----------------------------------------------------------------------------
(* C9 *)

\* Every decision recorded so far agrees with the fetched positions.
DecisionsFollowSnapshot ==
  /\ \A k \in 1..Len(calls) :
       calls[k].op \in OrderOps =>
         /\ calls[k].phase = "enter" =>
              ~(Snapshot[calls[k].symbol] # NoPos /\ Snapshot[calls[k].symbol] > 0)
         /\ calls[k].phase = "exit" =>
              /\ Snapshot[calls[k].symbol] > 0
              /\ calls[k].shares = Snapshot[calls[k].symbol]
  /\ \A n \in 1..Len(summary.skipped) :
       LET r == summary.skipped[n] IN
       IF Len(r.reason) = 3
         THEN Snapshot[r.symbol] > 0 /\ r.reason[2] = Snapshot[r.symbol]
         ELSE Snapshot[r.symbol] = NoPos \/ Snapshot[r.symbol] = 0
  /\ Len(Results) + Len(summary.skipped) =
       IF phase = "enter" THEN idx - 1 ELSE Len(enterSignals) + idx - 1

\* The positions were fetched by one successful call, made before any order.
FetchedOnce ==
  /\ Cardinality({k \in 1..Len(calls) :
                    calls[k].op \in FetchOps /\ calls[k].outcome = "ok"}) =
       (IF positions = None THEN 0 ELSE 1)
  /\ \A k \in 1..Len(calls) :
       calls[k].op \in FetchOps =>
         /\ calls[k].phase = "fetch"
         /\ \A j \in 1..k : calls[j].op \notin OrderOps
  /\ \A k \in 1..Len(calls) : calls[k].op \in OrderOps => positions # None

\* C9: within one executeTrades batch the positions are fetched once, before
\* the first order; the fetched map never changes afterwards; and every skip,
\* buy and sell decision of the batch follows that map, whatever earlier
\* orders of the batch did to the account.
C9_SingleSnapshot ==
  /\ [](FetchedOnce /\ (positions # None => DecisionsFollowSnapshot))
  /\ [][positions # None => positions' = positions]_vars

\* A symbol bought (and filled) by an enter signal of the batch, whose exit
\* signal in the same batch was skipped.
C9_Witness ==
  /\ phase = "exit"
  /\ \E sym \in Symbols :
       /\ Snapshot[sym] = NoPos
       /\ held[sym] > 0
       /\ \E n \in 1..Len(summary.successful) :
            summary.successful[n].symbol = sym /\ summary.successful[n].action = "BUY"
       /\ \E n \in 1..Len(summary.skipped) :
            summary.skipped[n].symbol = sym /\ Len(summary.skipped[n].reason) = 1

-----------------------------------------------------------------------------
(* C10 *)

\* The message of the error the failed call of a position fetch threw.
FetchErrorOf(call) ==
  CASE call.op = "account_by_number" -> "getAccountByNumber failed"
    [] call.op = "account_numbers" /\ call.outcome = "empty" ->
         "Schwab getAccountNumbers() did not return a hash for this portfolio."
    [] call.op = "account_numbers" -> "getAccountNumbers failed"
    [] call.op = "refresh" -> RefreshError(call.outcome).message
    [] call.op = "tradier_profile" -> "Tradier profile failed"
    [] OTHER -> "Tradier positions failed"

\* C10: when the position fetch of executeTrades fails, the call does not
\* throw; it returns a summary whose failed list is one entry with symbol
\* "ALL" and the fetch error's message behind "Failed to fetch positions: ",
\* whose successful and skipped lists are empty, and no order is submitted.
C10_FetchFailure ==
  phase = "fetch" =>
    /\ pc # "thrown"
    /\ \A k \in 1..Len(calls) : calls[k].op \notin OrderOps
    /\ summary.successful = <<>>
    /\ summary.skipped = <<>>
    /\ pc # "done" => summary.failed = <<>>
    /\ pc = "done" =>
         /\ Len(summary.failed) = 1
         /\ summary.failed[1].symbol = "ALL"
         /\ ~summary.failed[1].success
         /\ Len(calls) > 0
         /\ summary.failed[1].error =
              <<"Failed to fetch positions: ", FetchErrorOf(calls[Len(calls)])>>

\* The fetch failed after a token refresh, with signals waiting.
C10_Witness ==
  /\ phase = "fetch"
  /\ pc = "done"
  /\ Len(enterSignals) + Len(exitSignals) = 2
  /\ depth = 1
  /\ calls[Len(calls)].op = "account_by_number"

-----------------------------------------------------------------------------
(* C11 *)

\* Portfolio p has no credential record of either brokerage.
NoRecord(p) == schwab_credentials[p] = NoRow /\ tradier_credentials[p] = NoRow

\* A batch entry point has been called.
Started == entry # "none"

\* The number of signals or actions the running batch was given.
InputCount ==
  IF entry = "executeTrades" THEN Len(enterSignals) + Len(exitSignals)
  ELSE Len(actions)

\* C11: for a portfolio with no credential record of either brokerage,
\* executeTrades and executeTradesFromActions return a summary with all three
\* lists empty, without throwing and without any broker call, whatever the
\* input is.
C11_UnboundReturnsEmpty ==
  (Started /\ NoRecord(portfolioId)) =>
    /\ pc = "done"
    /\ summary = EmptySummary
    /\ thrown = None
    /\ calls = <<>>
    /\ positions = None

C11_Witness ==
  /\ entry = "executeTrades"
  /\ NoRecord(portfolioId)
  /\ Len(enterSignals) = 1
  /\ Len(exitSignals) = 1
  /\ ENABLE_TRADING
  /\ TRADIER_ENABLE_TRADING
  /\ pc = "done"

-----------------------------------------------------------------------------
(* C12 *)

\* Trading is switched off for the brokerage portfolio p is bound to.
GateClosed(p) ==
  \/ getPortfolioBrokerage(p) = "schwab" /\ ~ENABLE_TRADING
  \/ getPortfolioBrokerage(p) = "tradier" /\ ~TRADIER_ENABLE_TRADING

\* Trading is switched on for the brokerage portfolio p is bound to.
GateOpen(p) ==
  \/ getPortfolioBrokerage(p) = "schwab" /\ ENABLE_TRADING
  \/ getPortfolioBrokerage(p) = "tradier" /\ TRADIER_ENABLE_TRADING

\* C12: when trading is disabled for the brokerage the portfolio is bound to,
\* no order is submitted and the batch entry points return a summary with
\* empty successful and failed lists; when trading is enabled for that
\* brokerage the batch goes past the gate whatever the other brokerage's
\* flag is.
C12_TradingGate ==
  /\ (Started /\ GateClosed(portfolioId)) =>
       /\ pc = "done"
       /\ summary.successful = <<>>
       /\ summary.failed = <<>>
       /\ \A k \in 1..Len(calls) : calls[k].op \notin OrderOps
  /\ (Started /\ GateOpen(portfolioId) /\ InputCount > 0) =>
       /\ phase # "none"
       /\ \A k \in 1..Len(Results) :
            Results[k].error \notin
              {<<"Trading is disabled (SCHWAB_ENABLE_TRADING=false)">>,
               <<"Trading is disabled (TRADIER_ENABLE_TRADING=false)">>}

C12_Witness ==
  /\ entry = "executeTradesFromActions"
  /\ getPortfolioBrokerage(portfolioId) = "tradier"
  /\ ~TRADIER_ENABLE_TRADING
  /\ ENABLE_TRADING
  /\ Len(actions) = 2
  /\ actions[1].shares > 0
  /\ pc = "done"

-----------------------------------------------------------------------------
(* C13 *)

InvalidShareError == <<"Invalid share quantity: must be greater than 0">>

\* C13: for a bound portfolio with trading enabled, every action whose share
\* count is zero or negative yields a failed result whose error is "Invalid
\* share quantity ...", and handling it makes no broker call and no store
\* write; no action with a positive share count gets that error.
C13_InvalidShares ==
  (entry = "executeTradesFromActions" /\ GateOpen(portfolioId)) =>
    /\ \A i \in 1..Len(actions) :
         actions[i].shares <= 0 =>
           /\ CallsAt("action", i) = {}
           /\ (pc = "return" /\ idx = i) =>
                result = Some(Failure(actions[i], InvalidShareError[1]))
           /\ idx = i => pc \in {"loop", "place", "return"}
    /\ \A symbol \in Symbols, action \in {"BUY", "SELL"}, shares \in {-5, 0} :
         LET bad(a) == a.symbol = symbol /\ a.action = action /\ a.shares = shares
             badResult(r) == bad(r) /\ r.error = InvalidShareError /\ ~r.success
             handled == SubSeq(actions, 1, IF phase = "action" THEN idx - 1 ELSE 0)
         IN  /\ CountOf(summary.failed, badResult) = CountOf(handled, bad)
             /\ CountOf(summary.successful, bad) = 0
    /\ \A k \in 1..Len(Results) :
         Results[k].error = InvalidShareError => Results[k].shares <= 0

C13_Witness ==
  /\ entry = "executeTradesFromActions"
  /\ GateOpen(portfolioId)
  /\ pc = "done"
  /\ Len(actions) = 2
  /\ actions[1].shares = 0
  /\ actions[2].shares = -5
  /\ Len(summary.failed) = 2
  /\ calls = <<>>

-----------------------------------------------------------------------------
(* C14 *)

\* The batch went through its loops and returned its summary.
Completed ==
  /\ pc = "done"
  /\ thrown = None
  /\ \/ entry = "executeTradesFromActions" /\ phase = "action"
     \/ entry = "executeTrades" /\ phase = "exit"

\* Skips of the enter loop and of the exit loop, told apart by their reason.
IsEnterSkip(k) == Len(k.reason) = 3
IsExitSkip(k) == k.reason = <<"No position to exit">>

\* C14: when a batch has run to completion on a bound, trading-enabled
\* portfolio, the three summary lists together have one entry per input (as
\* many entries for an action, or for a symbol's enter or exit signals, as the
\* input has, repeated symbols included), every entry of successful has
\* success = true and every entry of failed has success = false.
C14_SummaryPartition ==
  /\ \A k \in 1..Len(summary.successful) : summary.successful[k].success
  /\ \A k \in 1..Len(summary.failed) : ~summary.failed[k].success
  /\ (Completed /\ GateOpen(portfolioId)) =>
       /\ Len(summary.successful) + Len(summary.failed) + Len(summary.skipped)
            = InputCount
       /\ entry = "executeTradesFromActions" =>
            /\ summary.skipped = <<>>
            /\ \A a \in ActionInputs :
                 LET same(x) == /\ x.symbol = a.symbol /\ x.action = a.action
                                /\ x.shares = a.shares /\ x.price = a.price
                 IN  CountOf(Results, same) = CountOf(actions, same)
       /\ entry = "executeTrades" =>
            \A symbol \in Symbols :
              LET of(x) == x.symbol = symbol
                  buy(x) == x.symbol = symbol /\ x.action = "BUY"
                  sell(x) == x.symbol = symbol /\ x.action = "SELL"
                  enterSkip(x) == x.symbol = symbol /\ IsEnterSkip(x)
                  exitSkip(x) == x.symbol = symbol /\ IsExitSkip(x)
              IN  /\ CountOf(Results, buy) + CountOf(summary.skipped, enterSkip)
                       = CountOf(enterSignals, of)
                  /\ CountOf(Results, sell) + CountOf(summary.skipped, exitSkip)
                       = CountOf(exitSignals, of)

\* The same action twice, both orders accepted.
C14_Witness ==
  /\ Completed
  /\ GateOpen(portfolioId)
  /\ entry = "executeTradesFromActions"
  /\ Len(actions) = 2
  /\ actions[1] = actions[2]
  /\ Len(summary.successful) = 2

-----------------------------------------------------------------------------
(* C15 *)

RECURSIVE IsSubsequence(_, _)
\* Sequence a is what is left of sequence b after dropping some elements.
IsSubsequence(a, b) ==
  IF a = <<>> THEN TRUE
  ELSE IF b = <<>> THEN FALSE
  ELSE IF Head(a) = Head(b) THEN IsSubsequence(Tail(a), Tail(b))
  ELSE IsSubsequence(a, Tail(b))

\* The inputs of the running batch in the order the code takes them, as
\* symbol and side.
InputTags ==
  IF entry = "executeTrades"
    THEN [k \in 1..Len(enterSignals) |-> <<enterSignals[k].symbol, "BUY">>]
         \o [k \in 1..Len(exitSignals) |-> <<exitSignals[k].symbol, "SELL">>]
    ELSE [k \in 1..Len(actions) |-> <<actions[k].symbol, actions[k].action>>]

ResultTags(list) == [k \in 1..Len(list) |-> <<list[k].symbol, list[k].action>>]

SkipTags ==
  [k \in 1..Len(summary.skipped) |->
     <<summary.skipped[k].symbol,
       IF IsEnterSkip(summary.skipped[k]) THEN "BUY" ELSE "SELL">>]

\* Position of a history entry in the order of the batch: phase, then item.
PhaseRank(ph) == IF ph = "exit" THEN 2 ELSE IF ph = "fetch" THEN 0 ELSE 1

\* The inputs handled so far: skipped, or ordered with the result recorded.
HandledCount ==
  CASE phase = "action" -> idx - 1
    [] phase = "enter" -> idx - 1
    [] phase = "exit" -> Len(enterSignals) + idx - 1
    [] OTHER -> 0

\* The batch reached its loops, so every summary entry comes from an input
\* (a failed position fetch leaves the one entry "ALL" instead).
LoopsEntered == Started /\ phase \in OrderPhases

\* C15: the orders of one batch are made one after another (every broker call
\* of an order comes after all calls of the orders before it, and while an
\* order is in progress the results of all earlier inputs are in the summary),
\* every call for an enter signal comes before every call for an exit signal,
\* and each summary list holds its entries in the order of the inputs.
C15_SequentialInOrder ==
  /\ \A j, k \in 1..Len(calls) :
       (j < k /\ calls[j].phase \in OrderPhases /\ calls[k].phase \in OrderPhases) =>
         /\ PhaseRank(calls[j].phase) <= PhaseRank(calls[k].phase)
         /\ calls[j].phase = calls[k].phase => calls[j].item <= calls[k].item
  /\ (LoopsEntered /\ thrown = None) =>
       /\ Len(Results) + Len(summary.skipped) = HandledCount
       /\ \A k \in 1..Len(calls) :
            calls[k].phase \in OrderPhases =>
              /\ PhaseRank(calls[k].phase) <= PhaseRank(phase)
              /\ calls[k].phase = phase => calls[k].item <= idx
  /\ LoopsEntered =>
       /\ IsSubsequence(ResultTags(summary.successful), InputTags)
       /\ IsSubsequence(ResultTags(summary.failed), InputTags)
       /\ IsSubsequence(SkipTags, InputTags)

\* An enter order, then an exit order for another symbol, both accepted.
C15_Witness ==
  /\ Completed
  /\ entry = "executeTrades"
  /\ Len(summary.successful) = 2
  /\ summary.successful[1].action = "BUY"
  /\ summary.successful[2].action = "SELL"
  /\ \E j, k \in 1..Len(calls) :
       j < k /\ calls[j].phase = "enter" /\ calls[k].phase = "exit"

-----------------------------------------------------------------------------
(* C16 *)

StoreWrites == {"write_schwab", "write_tradier"}

\* History entry k is a successful auth.refresh.
RefreshedAt(k) ==
  calls[k].op = "refresh" /\ calls[k].outcome \in {"ok_rt", "ok_no_rt"}

\* The first broker call in the history after entry r, or 0.
NextBrokerCall(r) ==
  LET later == {k \in (r + 1)..Len(calls) : calls[k].op \notin StoreWrites}
  IN  IF later = {} THEN 0 ELSE CHOOSE k \in later : \A j \in later : k <= j

\* refreshTokensIfNeeded has just returned successfully.
JustRefreshed ==
  /\ Len(calls) >= 2
  /\ RefreshedAt(Len(calls) - 1)
  /\ calls[Len(calls)].op = "write_schwab"

\* C16 as stated: after refreshTokensIfNeeded succeeds for a portfolio the
\* store holds the newly issued access token, neither a cached client nor a
\* cached account hash exists for it, and the next broker call for it is the
\* account-numbers lookup of a rebuilt client.
C16_Original ==
  /\ JustRefreshed =>
       /\ schwab_credentials[portfolioId] # NoRow
       /\ schwab_credentials[portfolioId][1].access_token = calls[Len(calls) - 1].token
       /\ ~schwabClientByPortfolio[portfolioId]
       /\ accountHashByPortfolio[portfolioId] = Null
  /\ \A r \in 1..Len(calls) :
       (RefreshedAt(r) /\ NextBrokerCall(r) # 0) =>
         calls[NextBrokerCall(r)].op = "account_numbers"

-----------------------------------------------------------------------------
(* C18 *)

ReauthMessage ==
  "Refresh token expired. Please re-authenticate through Schwab's OAuth flow."

\* The refresh made for action i was rejected: the refresh token has expired.
RefreshExpired(i) ==
  \E r \in Refreshes("action", i) : calls[r].outcome = "expired"

\* C18: when the token refresh made after an order's 401 is rejected because
\* the refresh token has expired, that refresh is the last call made for the
\* order (one submission, one refresh, no resubmission), the entry point does
\* not throw, and the order is recorded as a failed result whose message asks
\* to re-authenticate through Schwab's OAuth flow.
C18_RefreshExpired ==
  \A i \in 1..Len(actions) :
    RefreshExpired(i) =>
      LET r == CHOOSE k \in Refreshes("action", i) : calls[k].outcome = "expired" IN
      /\ Cardinality(Refreshes("action", i)) = 1
      /\ Cardinality(Submissions("action", i)) = 1
      /\ \A k \in Submissions("action", i) : k < r /\ calls[k].outcome = "401"
      /\ \A k \in CallsAt("action", i) : k <= r
      /\ ~(pc = "thrown" /\ idx = i)
      /\ idx = i =>
           /\ pc = "return"
           /\ result = Some(Failure(actions[i], ReauthMessage))
      /\ Handled(i) =>
           \E n \in 1..Len(summary.failed) :
             summary.failed[n] = Failure(actions[i], ReauthMessage)

\* The first action failed on an expired refresh token and the batch returned
\* after trying the second.
C18_Witness ==
  /\ entry = "executeTradesFromActions"
  /\ Len(actions) = 2
  /\ RefreshExpired(1)
  /\ pc = "done"
  /\ thrown = None
  /\ Len(summary.failed) + Len(summary.successful) = 2
  /\ summary.failed[1].error = <<ReauthMessage>>

-----------------------------------------------------------------------------
(* C17 *)

\* The step wrote the Schwab credentials after a token refresh.
RefreshWriteStep ==
  /\ Len(calls') > Len(calls) + 1
  /\ calls'[Len(calls')].op = "write_schwab"
  /\ calls'[Len(calls') - 1].op \in {"refresh", "sdk_refresh"}

\* C17: every credential write made on a token refresh, by
\* refreshTokensIfNeeded or by the client's token-save callback, stores the
\* new access token, leaves the stored redirect URI and account number as they
\* were, and leaves the stored refresh token as it was when the broker's
\* response carries no new refresh token.
C17_RefreshWriteFrame ==
  [][RefreshWriteStep =>
       LET before == schwab_credentials[portfolioId]
           after == schwab_credentials'[portfolioId]
           issued == calls'[Len(calls') - 1]
       IN  /\ before # NoRow
           /\ after # NoRow
           /\ after[1].access_token = issued.token
           /\ after[1].redirect_uri = before[1].redirect_uri
           /\ after[1].account_number = before[1].account_number
           /\ issued.outcome = "ok_no_rt" =>
                after[1].refresh_token = before[1].refresh_token]_vars

\* The save callback wrote tokens that came without a new refresh token:
\* the refresh token, the redirect URI and the account number are the stored
\* ones.
C17_Witness ==
  /\ Len(calls) >= 2
  /\ calls[Len(calls) - 1].op = "sdk_refresh"
  /\ calls[Len(calls) - 1].outcome = "ok_no_rt"
  /\ calls[Len(calls)].op = "write_schwab"
  /\ schwab_credentials[portfolioId] # NoRow
  /\ schwab_credentials[portfolioId][1].redirect_uri = "uri"
  /\ schwab_credentials[portfolioId][1].account_number = Null
  /\ schwab_credentials[portfolioId][1].access_token = 2
  /\ schwab_credentials[portfolioId][1].refresh_token = 1

-----------------------------------------------------------------------------
(* C19 *)

\* History entry k is a successful OAuth re-authentication.
ReauthAt(k) == calls[k].op = "oauth_callback"

\* History entry k is a broker call that needs the account hash.
UsesHash(k) == calls[k].op \in {"schwab_order", "account_by_number"}

\* Between history entries r and k a client made getAccountNumbers() and got
\* a hash.
ResolvedBetween(r, k) ==
  \E j \in (r + 1)..(k - 1) :
    calls[j].op = "account_numbers" /\ calls[j].outcome = "ok"

-----------------------------------------------------------------------------
(* C20 *)

\* The profile lookups in the history, and those that gave an account.
ProfileLookups == {k \in 1..Len(calls) : calls[k].op = "tradier_profile"}
ProfileResolved == {k \in ProfileLookups : calls[k].outcome = "ok"}

\* The account identifier stored for portfolio p, or NullStr.
StoredAccountId(p) ==
  IF tradier_credentials[p] = NoRow THEN NullStr
  ELSE tradier_credentials[p][1].account_id

\* The stored identifier of portfolio p has a non-blank character.
HasAccountId(p) ==
  StoredAccountId(p) # NullStr /\ Trim(StoredAccountId(p)) # EmptyStr

\* No resolved identifier has been written so far, so the stored one is the
\* one the process started with.
NeverWritten == \A k \in 1..Len(calls) : calls[k].op # "write_tradier"

-----------------------------------------------------------------------------
(* C21 *)

\* Tradier credentials a portfolio may have in the store: with or without an
\* account identifier, sandbox or live.
StoredTradierCreds ==
  {InitialTradierCreds(NullStr), InitialTradierCreds(Str("V")),
   [apiKey |-> Str("j"), accountId |-> NullStr, sandbox |-> FALSE]}

\* A process whose portfolio 1 is bound to Schwab or to Tradier and whose
\* portfolio 2 is bound to Tradier, with trading switched on.
InitKeys ==
  /\ \/ /\ schwab_credentials = [p \in Portfolios |->
             IF p = 1 THEN Some(SchwabRow(InitialSchwabCreds)) ELSE NoRow]
        /\ tradier_credentials = [p \in Portfolios |->
             IF p = 2 THEN Some(TradierRow(InitialTradierCreds(Str("V")))) ELSE NoRow]
        /\ lastWritten = [p \in Portfolios |-> IF p = 1 THEN "schwab" ELSE "tradier"]
     \/ /\ \E creds \in StoredTradierCreds :
             tradier_credentials = [p \in Portfolios |->
               IF p = 1 THEN Some(TradierRow(creds))
               ELSE Some(TradierRow(InitialTradierCreds(Str("V"))))]
        /\ schwab_credentials = [p \in Portfolios |-> NoRow]
        /\ lastWritten = [p \in Portfolios |-> "tradier"]
  /\ ENABLE_TRADING = TRUE
  /\ TRADIER_ENABLE_TRADING = TRUE
  /\ held \in ActionsHoldings
  /\ EngineIdle

SpecKeys == InitKeys /\ [][NextBatch]_vars

\* C21: no step of the trade engine changes the stored Tradier API key or
\* sandbox flag of a portfolio; a portfolio that has a Tradier record keeps
\* it, with the same key and the same flag, across every step, the write of
\* the resolved account identifier included.
C21_TradierKeyFrame ==
  [][\A p \in Portfolios :
       tradier_credentials[p] # NoRow =>
         /\ tradier_credentials'[p] # NoRow
         /\ tradier_credentials'[p][1].api_key = tradier_credentials[p][1].api_key
         /\ tradier_credentials'[p][1].sandbox = tradier_credentials[p][1].sandbox]_vars

\* The engine has written the resolved identifier to a live (non-sandbox)
\* credential: key and flag are as stored.
C21_Witness ==
  /\ Len(calls) >= 2
  /\ calls[Len(calls)].op = "write_tradier"
  /\ tradier_credentials[portfolioId] # NoRow
  /\ tradier_credentials[portfolioId][1].account_id = TradierAccount
  /\ tradier_credentials[portfolioId][1].api_key = Str("j")
  /\ tradier_credentials[portfolioId][1].sandbox = 0

-----------------------------------------------------------------------------
(* trader.ts: verifyConnection and getPortfolioPositions *)

\* positions.size: the entries of the map.
MapSize(map) == Cardinality({s \in Symbols : map[s] # NoPos})

\* Array.from(map.values()).map(...): one element per entry of the map.
PortfolioPositions(map) ==
  {[symbol |-> s, longQuantity |-> map[s]] : s \in {t \in Symbols : map[t] # NoPos}}

\* History entry of a value getPortfolioPositions returned.
Returned(value) == ("value" :> value) @@ Call("return", "ok", 0, Null)

\* verifyConnection up to getCurrentPositions: the brokerage lookup.
verifyConnection ==
  /\ pc = "idle"
  /\ \E p \in EnginePortfolios :
       /\ entry' = "verifyConnection"
       /\ portfolioId' = p
       /\ IF getPortfolioBrokerage(p) = Null
            THEN /\ result' = Some(VerifyResult(FALSE,
                        "No credentials. Link this portfolio via Schwab or Tradier.",
                        NoCount))
                 /\ pc' = "done"
                 /\ UNCHANGED <<phase, depth>>
            ELSE /\ pc' = "fetch"
                 /\ phase' = "fetch"
                 /\ depth' = 0
                 /\ UNCHANGED result
  /\ UNCHANGED <<storeVars, cacheVars, configVars, processVars, actions, enterSignals,
                 exitSignals, held, positions, thrown, summary, idx, cur,
                 localVars, calls>>

\* verifyConnection after getCurrentPositions returned.  The label is the
\* brokerage read before the fetch, which the fetch leaves as it is.
verifyConnectionReturn ==
  /\ pc = "mapped"
  /\ entry = "verifyConnection"
  /\ result' = Some(VerifyResult(TRUE,
        IF getPortfolioBrokerage(portfolioId) = "schwab"
          THEN "Schwab API connected" ELSE "Tradier API connected",
        MapSize(positions[1])))
  /\ pc' = "done"
  /\ UNCHANGED <<storeVars, cacheVars, configVars, processVars, inputVars, held, positions,
                 thrown, summary, loopVars, localVars, calls>>

\* getPortfolioPositions up to getCurrentPositions.
getPortfolioPositions ==
  /\ pc = "idle"
  /\ \E p \in EnginePortfolios :
       /\ entry' = "getPortfolioPositions"
       /\ portfolioId' = p
  /\ pc' = "fetch"
  /\ phase' = "fetch"
  /\ depth' = 0
  /\ UNCHANGED <<storeVars, cacheVars, configVars, processVars, actions, enterSignals,
                 exitSignals, held, positions, result, thrown, summary, idx,
                 cur, localVars, calls>>

\* getPortfolioPositions after getCurrentPositions returned.
getPortfolioPositionsReturn ==
  /\ pc = "mapped"
  /\ entry = "getPortfolioPositions"
  /\ result' = Some(PortfolioPositions(positions[1]))
  /\ calls' = Append(calls, Returned(PortfolioPositions(positions[1])))
  /\ pc' = "done"
  /\ UNCHANGED <<storeVars, cacheVars, configVars, processVars, inputVars, held, positions,
                 thrown, summary, loopVars, localVars>>

\* The steps of getCurrentPositions for either brokerage.
FetchSteps ==
  \/ getCurrentPositions
  \/ getAccountHashFromApi
  \/ getAccountByNumber
  \/ refreshTokensIfNeeded
  \/ resolveTradierAccountId
  \/ getTradierPositions

-----------------------------------------------------------------------------
(* ui-server.ts: the Tradier connect route *)

\* POST /api/tradier/connect between two runs of the engine: the account
\* identifier is looked up with the submitted key and the credentials are
\* written; a failed lookup writes nothing.  The Schwab caches of the
\* portfolio are left as they are.
tradierConnect ==
  /\ pc = "idle"
  /\ Len(calls) > 0
  /\ calls[Len(calls)].op = "run_end"
  /\ \E p \in EnginePortfolios, outcome \in {"ok", "error"} :
       /\ calls' = Append(calls, Call("tradier_connect", outcome, 0, Null))
       /\ IF outcome = "ok"
            THEN writeTradierCredentials(p,
                   [apiKey |-> Str("k"), accountId |-> TradierAccount,
                    sandbox |-> TRUE])
            ELSE UNCHANGED storeVars
  /\ UNCHANGED <<cacheVars, configVars, processVars, inputVars, held, positions, ctlVars,
                 loopVars, localVars>>

\* A process whose portfolio 1 is bound to either brokerage and has trading
\* switched on for both.
InitRebind ==
  /\ \/ /\ schwab_credentials = [p \in Portfolios |->
             IF p = 1 THEN Some(SchwabRow(InitialSchwabCreds)) ELSE NoRow]
        /\ tradier_credentials = [p \in Portfolios |-> NoRow]
        /\ lastWritten = [p \in Portfolios |-> IF p = 1 THEN "schwab" ELSE "none"]
     \/ /\ tradier_credentials = [p \in Portfolios |->
             IF p = 1 THEN Some(TradierRow(InitialTradierCreds(Str("V")))) ELSE NoRow]
        /\ schwab_credentials = [p \in Portfolios |-> NoRow]
        /\ lastWritten = [p \in Portfolios |-> IF p = 1 THEN "tradier" ELSE "none"]
  /\ ENABLE_TRADING = TRUE
  /\ TRADIER_ENABLE_TRADING = TRUE
  /\ held \in ActionsHoldings
  /\ EngineIdle

\* Runs of executeTradesFromActions and of getPortfolioPositions, with the
\* portfolio linked to the other brokerage between the runs.
NextRebind ==
  \/ ExecuteActions(SessionLists(1))
  \/ ActionsLoop
  \/ PlaceOrder
  \/ placeOrderViaDirectPost
  \/ placeOrderViaDirectPostRetry
  \/ placeTradierOrder
  \/ RecordResult
  \/ getPortfolioPositions
  \/ getPortfolioPositionsReturn
  \/ FetchSteps
  \/ NextRun
  \/ handleSchwabCallback
  \/ tradierConnect

SpecRebind == InitRebind /\ [][NextRebind]_vars

-----------------------------------------------------------------------------
(* C22 *)

SchwabOps == {"account_numbers", "account_by_number", "schwab_order", "refresh",
              "sdk_refresh"}
TradierOps == {"tradier_profile", "tradier_positions", "tradier_order"}

-----------------------------------------------------------------------------
(* The read-only calls of the admin server *)

\* Calls of verifyConnection and getPortfolioPositions and batches of
\* executeTradesFromActions, one after the other, on a portfolio bound to
\* either brokerage or to none.
InitReadOnly ==
  /\ InitBinding
  /\ ENABLE_TRADING = TRUE
  /\ TRADIER_ENABLE_TRADING = TRUE
  /\ held \in SignalsHoldings
  /\ EngineIdle

NextReadOnly ==
  \/ verifyConnection
  \/ verifyConnectionReturn
  \/ getPortfolioPositions
  \/ getPortfolioPositionsReturn
  \/ FetchSteps
  \/ ExecuteActions(SessionLists(1))
  \/ ActionsLoop
  \/ PlaceOrder
  \/ placeOrderViaDirectPost
  \/ placeOrderViaDirectPostRetry
  \/ placeTradierOrder
  \/ RecordResult
  \/ NextRun

SpecReadOnly == InitReadOnly /\ [][NextReadOnly]_vars

\* The history entries of the running call: those after the last "run_end".
RunStart ==
  LET ends == {k \in 1..Len(calls) : calls[k].op = "run_end"} IN
  IF ends = {} THEN 1 ELSE 1 + CHOOSE k \in ends : \A j \in ends : j <= k

RunCalls == SubSeq(calls, RunStart, Len(calls))

-----------------------------------------------------------------------------
(* C23 *)

\* C23: verifyConnection never throws.  Its reply has ok = false and a message
\* when the portfolio has no binding and when the last broker call of the
\* position fetch failed; it has ok = true only when the last call of the
\* fetch is a position fetch that succeeded, and then positionsCount is the
\* number of entries of the fetched map.
C23_VerifyNeverThrows ==
  entry = "verifyConnection" =>
    /\ pc # "thrown"
    /\ thrown = None
    /\ pc = "done" =>
         /\ result # None
         /\ LET r == result[1]
                n == Len(RunCalls)
                fetched == /\ n > 0
                           /\ RunCalls[n].op \in {"account_by_number", "tradier_positions"}
                           /\ RunCalls[n].outcome = "ok"
            IN  /\ r.ok <=> fetched
                /\ NoRecord(portfolioId) => ~r.ok
                /\ ~r.ok => r.message # "" /\ r.positionsCount = NoCount
                /\ r.ok =>
                     /\ positions # None
                     /\ r.positionsCount =
                          Cardinality({s \in Symbols : positions[1][s] # NoPos})

\* verifyConnection on a Schwab portfolio refreshed the expired token, fetched
\* again and reports the two positions of the account.
C23_Witness ==
  /\ entry = "verifyConnection"
  /\ pc = "done"
  /\ result # None
  /\ result[1].ok
  /\ result[1].positionsCount = 2
  /\ \E k \in 1..Len(calls) : calls[k].op = "refresh"

-----------------------------------------------------------------------------
(* C24 *)

\* The step adds no order submission to the history and leaves the broker's
\* account as it is.
NoOrderStep ==
  /\ \A k \in (Len(calls) + 1)..Len(calls') : calls'[k].op \notin OrderOps
  /\ held' = held

\* C24 as stated: no step of a verifyConnection call submits an order or
\* changes a credential table.
C24_Original ==
  [][entry' = "verifyConnection" =>
       /\ NoOrderStep
       /\ schwab_credentials' = schwab_credentials
       /\ tradier_credentials' = tradier_credentials]_vars

\* C24, amended: no step of a verifyConnection call submits an order or
\* changes the brokerage binding of a portfolio.  A credential record that
\* exists before the step exists after it; of a Schwab record only the tokens
\* may differ, of a Tradier record only the account identifier; no record is
\* created.
C24_VerifyFrame ==
  [][entry' = "verifyConnection" =>
       /\ NoOrderStep
       /\ \A p \in Portfolios :
            /\ getPortfolioBrokerage(p)' = getPortfolioBrokerage(p)
            /\ (schwab_credentials[p] = NoRow) <=> (schwab_credentials'[p] = NoRow)
            /\ (tradier_credentials[p] = NoRow) <=> (tradier_credentials'[p] = NoRow)
            /\ schwab_credentials[p] # NoRow =>
                 /\ schwab_credentials'[p][1].redirect_uri =
                      schwab_credentials[p][1].redirect_uri
                 /\ schwab_credentials'[p][1].account_number =
                      schwab_credentials[p][1].account_number
            /\ tradier_credentials[p] # NoRow =>
                 /\ tradier_credentials'[p][1].api_key =
                      tradier_credentials[p][1].api_key
                 /\ tradier_credentials'[p][1].sandbox =
                      tradier_credentials[p][1].sandbox]_vars

\* verifyConnection on a Schwab portfolio has refreshed the expired token and
\* stored the new one: the store differs from the one the call found, the
\* portfolio is still Schwab-bound.
C24_Witness ==
  /\ entry = "verifyConnection"
  /\ pc = "done"
  /\ Len(RunCalls) >= 2
  /\ \E k \in 1..Len(RunCalls) : RunCalls[k].op = "write_schwab"
  /\ schwab_credentials[portfolioId] # NoRow
  /\ schwab_credentials[portfolioId][1].access_token = 2
  /\ getPortfolioBrokerage(portfolioId) = "schwab"

-----------------------------------------------------------------------------
(* C25 *)

\* History entries j < k are values getPortfolioPositions returned for the
\* same portfolio, with no accepted order between them.
ReturnedTwice(j, k) ==
  /\ j < k
  /\ calls[j].op = "return"
  /\ calls[k].op = "return"
  /\ calls[j].portfolio = calls[k].portfolio
  /\ \A i \in (j + 1)..(k - 1) :
       ~(calls[i].op \in OrderOps /\ calls[i].outcome = "ok")

\* C25: two calls of getPortfolioPositions for the same portfolio, with no
\* order accepted and no change of the broker's account in between, return the
\* same set of positions, whatever the first call stored or cached.
C25_PositionsIdempotent ==
  \A j, k \in 1..Len(calls) :
    ReturnedTwice(j, k) => calls[j].value = calls[k].value

\* Two calls on a Tradier portfolio returned; the first one looked the account
\* identifier up and stored it, the second one used the stored identifier, and
\* both returned the one position of the account.
C25_Witness ==
  \E j, k \in 1..Len(calls) :
    /\ ReturnedTwice(j, k)
    /\ \E i \in 1..(j - 1) : calls[i].op = "write_tradier"
    /\ \A i \in (j + 1)..(k - 1) : calls[i].op # "tradier_profile"
    /\ Cardinality(calls[k].value) = 1
    /\ StoredAccountId(calls[k].portfolio) = TradierAccount

-----------------------------------------------------------------------------
(* index.ts and ui-server.ts: the invocations of one process *)

\* Every variable of the engine and the store.
tradeVars == <<storeVars, cacheVars, configVars, inputVars, engineVars>>

\* main() has started the admin server, scheduled the cron job and called
\* runCheck(); a request handler, the cron callback and the startup run each
\* run as an asynchronous function of the one event loop.  An invocation
\* makes its broker calls one after the other, awaiting each.
StartTask(t) ==
  /\ task[t].pc = "idle"
  /\ \E n \in 0..MaxCalls :
       task' = [task EXCEPT ![t] = [pc |-> "running", left |-> n]]
  /\ UNCHANGED <<tradeVars, writer, dailyVars, clientVars, sideVars>>

\* The invocation sends a request to the broker and suspends at its await;
\* the event loop goes on with whatever is ready.
IssueCall(t) ==
  /\ task[t].pc = "running"
  /\ task[t].left > 0
  /\ task' = [task EXCEPT ![t].pc = "awaiting"]
  /\ UNCHANGED <<tradeVars, writer, dailyVars, clientVars, sideVars>>

\* The broker's response arrives and the invocation resumes.
CallReturns(t) ==
  /\ task[t].pc = "awaiting"
  /\ task' = [task EXCEPT ![t] = [pc |-> "running", left |-> @.left - 1]]
  /\ UNCHANGED <<tradeVars, writer, dailyVars, clientVars, sideVars>>

\* The invocation returns.
EndTask(t) ==
  /\ task[t].pc = "running"
  /\ task[t].left = 0
  /\ task' = [task EXCEPT ![t].pc = "done"]
  /\ UNCHANGED <<tradeVars, writer, dailyVars, clientVars, sideVars>>

NextProcess ==
  \E t \in Tasks : StartTask(t) \/ IssueCall(t) \/ CallReturns(t) \/ EndTask(t)

SpecProcess == InitStore /\ [][NextProcess]_vars

-----------------------------------------------------------------------------
(* C26 *)

\* The invocations with a broker call in flight.
InFlight == {t \in Tasks : task[t].pc = "awaiting"}

\* C26 as stated: at every moment at most one brokerage call is in flight in
\* the process, counting the startup run, the cron-triggered runs and the
\* verify and positions requests of the admin server.
C26_Original == Cardinality(InFlight) <= 1

-----------------------------------------------------------------------------
(* state.ts: the statements of a credential write *)

\* The credentials the running writers were called with.
WrittenSchwabCreds == InitialSchwabCreds
WrittenTradierCreds == InitialTradierCreds(Str("V"))

\* The first statement of writeSchwabCredentials / writeTradierCredentials
\* for portfolio p: DELETE FROM the other brokerage's table.  A statement the
\* database rejects throws out of the write.
DeleteOther(w, p) ==
  /\ writer[w, p] = "idle"
  /\ \E outcome \in {"ok", "error"} :
       IF outcome = "ok"
         THEN /\ writer' = [writer EXCEPT ![w, p] = "deleted"]
              /\ IF w = "schwab"
                   THEN /\ tradier_credentials' = TradierTableAfterSchwabWrite(p)
                        /\ UNCHANGED schwab_credentials
                   ELSE /\ schwab_credentials' = SchwabTableAfterTradierWrite(p)
                        /\ UNCHANGED tradier_credentials
         ELSE /\ writer' = [writer EXCEPT ![w, p] = "failed"]
              /\ UNCHANGED <<schwab_credentials, tradier_credentials>>
  /\ UNCHANGED <<lastWritten, cacheVars, configVars, inputVars, engineVars, task,
                 dailyVars, clientVars, sideVars>>

\* The second statement: INSERT ... ON CONFLICT DO UPDATE of the own row.
UpsertOwn(w, p) ==
  /\ writer[w, p] = "deleted"
  /\ \E outcome \in {"ok", "error"} :
       IF outcome = "ok"
         THEN /\ writer' = [writer EXCEPT ![w, p] = "done"]
              /\ lastWritten' = [lastWritten EXCEPT ![p] = w]
              /\ IF w = "schwab"
                   THEN /\ schwab_credentials' = SchwabTableAfterWrite(p, WrittenSchwabCreds)
                        /\ UNCHANGED tradier_credentials
                   ELSE /\ tradier_credentials' = TradierTableAfterWrite(p, WrittenTradierCreds)
                        /\ UNCHANGED schwab_credentials
         ELSE /\ writer' = [writer EXCEPT ![w, p] = "failed"]
              /\ UNCHANGED storeVars
  /\ UNCHANGED <<cacheVars, configVars, inputVars, engineVars, task, dailyVars,
                 clientVars, sideVars>>

\* The callers of the writers (OAuth callback, Tradier connect route, token
\* refresh) are asynchronous functions of one event loop: each await of a
\* statement lets the other write go on.
NextWrites ==
  \E w \in Writers, p \in Portfolios : DeleteOther(w, p) \/ UpsertOwn(w, p)

SpecWrites == InitRebind /\ [][NextWrites]_vars

-----------------------------------------------------------------------------
(* C27 *)

\* Portfolio p had a credential record when the writes began, or a write for
\* it has completed since.
PreviouslyBound(p) ==
  p = 1 \/ \E w \in Writers : writer[w, p] = "done"

\* C27 as stated: at no point of a credential write, or of two interleaved
\* writes, or after a write that failed part-way, does a previously bound
\* portfolio have credential records of both brokerages or of neither.
C27_Original ==
  \A p \in Portfolios :
    PreviouslyBound(p) =>
      (schwab_credentials[p] = NoRow) # (tradier_credentials[p] = NoRow)

-----------------------------------------------------------------------------
(* index.ts: runCheck, the daily job *)

\* Last day of the calendar, and most runs of the daily job.
MaxDay == 2
MaxJobRuns == 3

\* What one run did.
Event(ev) == [run |-> job.run, date |-> job.date, ev |-> ev]

\* Every variable but those of the daily job.
restVars == <<tradeVars, task, writer, clientVars, sideVars>>

\* A shouldProcess that lets every date through.
MutShouldProcess(date, last) == TRUE

\* shouldProcess(date, state): no date recorded, or another one.
shouldProcess(date, last) ==
  IF last = 0 THEN TRUE ELSE last # date

\* Midnight passes between two readings of the clock.
NextDay ==
  /\ today < MaxDay
  /\ today' = today + 1
  /\ UNCHANGED <<restVars, lastProcessedDate, job, journal>>

\* scrapePortfolioData(): it throws, finds no actions, or returns actions
\* dated today.
Scrape ==
  /\ job.pc = "idle"
  /\ job.run <= MaxJobRuns
  /\ \E outcome \in {"actions", "none", "error"} :
       job' = [job EXCEPT !.date = today,
                          !.pc = CASE outcome = "actions" -> "scraped"
                                   [] outcome = "none" -> "returned"
                                   [] OTHER -> "failed"]
  /\ UNCHANGED <<restVars, today, lastProcessedDate, journal>>

\* readState() and shouldProcess(): a date already recorded ends the run.
CheckState ==
  /\ job.pc = "scraped"
  /\ IF shouldProcess(job.date, lastProcessedDate)
       THEN /\ job' = [job EXCEPT !.pc = "trade"]
            /\ UNCHANGED journal
       ELSE /\ job' = [job EXCEPT !.pc = "returned"]
            /\ journal' = Append(journal, Event("skip"))
  /\ UNCHANGED <<restVars, today, lastProcessedDate>>

\* The loop over the portfolios with credentials: executeTradesFromActions
\* returns a summary for each, or rejects and ends the run.
Trade ==
  /\ job.pc = "trade"
  /\ \E outcome \in {"returned", "thrown"} :
       /\ journal' = Append(journal, Event("trade"))
       /\ job' = [job EXCEPT !.pc = IF outcome = "returned" THEN "notify"
                                     ELSE "failed"]
  /\ UNCHANGED <<restVars, today, lastProcessedDate>>

\* await sendNotification(processedSignals): a failed POST is logged and
\* thrown again, into the catch of runCheck.
Notify ==
  /\ job.pc = "notify"
  /\ \E outcome \in {"ok", "error"} :
       IF outcome = "ok"
         THEN /\ journal' = Append(journal, Event("notify"))
              /\ job' = [job EXCEPT !.pc = "write"]
         ELSE /\ journal' = Append(journal, Event("notify_failed"))
              /\ job' = [job EXCEPT !.pc = "failed"]
  /\ UNCHANGED <<restVars, today, lastProcessedDate>>

\* await writeState(scrapedData.date, timestamp)
WriteState ==
  /\ job.pc = "write"
  /\ \E outcome \in {"ok", "error"} :
       IF outcome = "ok"
         THEN /\ lastProcessedDate' = job.date
              /\ journal' = Append(journal, Event("write_state"))
              /\ job' = [job EXCEPT !.pc = "returned"]
         ELSE /\ job' = [job EXCEPT !.pc = "failed"]
              /\ UNCHANGED <<lastProcessedDate, journal>>
  /\ UNCHANGED <<restVars, today>>

\* runCheck has returned or thrown; the cron callback (or its retry loop)
\* calls it again.
EndRun ==
  /\ job.pc \in {"returned", "failed"}
  /\ job' = [pc |-> "idle", date |-> 0, run |-> job.run + 1]
  /\ UNCHANGED <<restVars, today, lastProcessedDate, journal>>

NextDaily ==
  \/ NextDay
  \/ Scrape
  \/ CheckState
  \/ Trade
  \/ Notify
  \/ WriteState
  \/ EndRun

SpecDaily == InitStore /\ [][NextDaily]_vars

\* Run r of the daily job did ev.
Did(r, ev) == \E k \in 1..Len(journal) : journal[k].run = r /\ journal[k].ev = ev

-----------------------------------------------------------------------------
(* C28 *)

\* C28 as stated: a run whose notification failed has still recorded its
\* date as processed when it ends.
C28_Original ==
  job.pc \in {"returned", "failed"} /\ Did(job.run, "notify_failed") =>
    lastProcessedDate = job.date

-----------------------------------------------------------------------------
(* C29 *)

-----------------------------------------------------------------------------
(* trader.ts: initializeSchwabClient and the identity of the cached client *)

\* Most calls and evictions of one behaviour.
MaxInits == 4

\* The clients constructed so far.
Constructed == {k \in 1..Len(clientLog) : clientLog[k].constructed}

\* A cache that holds one client for every portfolio.
MutCachedClient(p) == clientOf[1]

\* schwabClientByPortfolio.get(portfolioId)
CachedClient(p) == clientOf[p]

\* Every variable but the client cache and its history.
otherVars ==
  <<storeVars, accountHashByPortfolio, configVars, inputVars, engineVars, task,
    writer, dailyVars, sideVars>>

\* One call of initializeSchwabClient(p), from its first line to its return:
\* the cached client, or an error when the credentials cannot be read, or a
\* new client that is put into the cache.
initializeSchwabClient ==
  /\ Len(clientLog) < MaxInits
  /\ \E p \in Portfolios :
       LET cached == CachedClient(p)
           entry0 == [op |-> "init", portfolio |-> p, before |-> clientOf[p],
                      client |-> 0, read |-> FALSE, constructed |-> FALSE]
       IN
       IF cached # 0
         THEN /\ clientLog' = Append(clientLog, [entry0 EXCEPT !.client = cached])
              /\ UNCHANGED <<clientOf, schwabClientByPortfolio>>
       ELSE IF readSchwabCredentials(p) = None
         THEN /\ clientLog' = Append(clientLog, [entry0 EXCEPT !.read = TRUE])
              /\ UNCHANGED <<clientOf, schwabClientByPortfolio>>
       ELSE LET new == Cardinality(Constructed) + 1 IN
            /\ clientOf' = [clientOf EXCEPT ![p] = new]
            /\ schwabClientByPortfolio' = [schwabClientByPortfolio EXCEPT ![p] = TRUE]
            /\ clientLog' = Append(clientLog,
                 [entry0 EXCEPT !.client = new, !.read = TRUE, !.constructed = TRUE])
  /\ UNCHANGED otherVars

\* schwabClientByPortfolio.delete(portfolioId), after a token refresh.
EvictClient ==
  /\ Len(clientLog) < MaxInits
  /\ \E p \in Portfolios :
       /\ clientOf' = [clientOf EXCEPT ![p] = 0]
       /\ schwabClientByPortfolio' = [schwabClientByPortfolio EXCEPT ![p] = FALSE]
       /\ clientLog' = Append(clientLog,
            [op |-> "evict", portfolio |-> p, before |-> clientOf[p],
             client |-> 0, read |-> FALSE, constructed |-> FALSE])
  /\ UNCHANGED otherVars

\* A process with portfolio 1 bound to Schwab and portfolio 2 bound to Schwab
\* or to nothing.
InitClients ==
  /\ \E second \in {NoRow, Some(SchwabRow(InitialSchwabCreds))} :
       schwab_credentials = [p \in Portfolios |->
         IF p = 1 THEN Some(SchwabRow(InitialSchwabCreds)) ELSE second]
  /\ tradier_credentials = [p \in Portfolios |-> NoRow]
  /\ lastWritten = [p \in Portfolios |->
       IF schwab_credentials[p] = NoRow THEN "none" ELSE "schwab"]
  /\ ENABLE_TRADING = TRUE
  /\ TRADIER_ENABLE_TRADING = TRUE
  /\ held \in ActionsHoldings
  /\ EngineIdle

NextClients == initializeSchwabClient \/ EvictClient

SpecClients == InitClients /\ [][NextClients]_vars

-----------------------------------------------------------------------------
(* C30 *)

\* C30: with calls made one at a time, a call of initializeSchwabClient for a
\* portfolio whose cache entry holds a client returns that client, reads no
\* credentials and constructs nothing; two constructions for one portfolio
\* have an eviction of that portfolio between them; and the client a call
\* returns was constructed for the portfolio of the call.
C30_OneClientPerPortfolio ==
  /\ \A k \in 1..Len(clientLog) :
       clientLog[k].op = "init" /\ clientLog[k].before # 0 =>
         /\ clientLog[k].client = clientLog[k].before
         /\ ~clientLog[k].read
         /\ ~clientLog[k].constructed
  /\ \A i, k \in Constructed :
       i < k /\ clientLog[i].portfolio = clientLog[k].portfolio =>
         \E e \in (i + 1)..(k - 1) :
           clientLog[e].op = "evict" /\ clientLog[e].portfolio = clientLog[k].portfolio
  /\ \A k \in 1..Len(clientLog) :
       clientLog[k].op = "init" /\ clientLog[k].client # 0 =>
         \E c \in Constructed :
           /\ c <= k
           /\ clientLog[c].client = clientLog[k].client
           /\ clientLog[c].portfolio = clientLog[k].portfolio

\* Clients were constructed for both portfolios, and a further call for
\* portfolio 2 returned the client of portfolio 2 without reading credentials.
C30_Witness ==
  /\ Len(clientLog) >= 3
  /\ \E i, j \in Constructed :
       clientLog[i].portfolio = 1 /\ clientLog[j].portfolio = 2
  /\ LET last == clientLog[Len(clientLog)] IN
       /\ last.op = "init"
       /\ last.portfolio = 2
       /\ last.before # 0
       /\ last.client = clientOf[2]
       /\ ~last.read

-----------------------------------------------------------------------------
(* C31 *)

\* The history entries of the running call with the given operation.
RunOps(op) == {k \in 1..Len(RunCalls) : RunCalls[k].op = op}

\* C31: one invocation of the Schwab position fetch performs at most one
\* token refresh and at most two getAccountByNumber attempts.
C31_Original ==
  entry \in {"verifyConnection", "getPortfolioPositions"} =>
    /\ Cardinality(RunOps("refresh")) <= 1
    /\ Cardinality(RunOps("account_by_number")) <= 2

-----------------------------------------------------------------------------
(* tradier-client.ts: getTradierAccountId *)

\* Longest account list of a profile reply.
MaxAccounts == 2

Closed == <<"c", "l", "o", "s", "e", "d">>

\* String.prototype.toLowerCase, on the letters the statuses are written with.
LowerChar(c) ==
  CASE c = "C" -> "c"
    [] c = "L" -> "l"
    [] c = "O" -> "o"
    [] c = "S" -> "s"
    [] c = "E" -> "e"
    [] c = "D" -> "d"
    [] OTHER -> c

toLowerCase(s) == [i \in 1..Len(s) |-> LowerChar(s[i])]

\* TradierProfileAccount: both fields are optional.  The statuses: absent,
\* active, closed in two spellings; the account numbers: absent, empty,
\* blank, plain, and padded with blanks.
ProfileStatuses ==
  {NullStr, <<"a", "c", "t", "i", "v", "e">>, Closed,
   <<"C", "L", "O", "S", "E", "D">>}
ProfileNumbers == {NullStr, EmptyStr, <<" ">>, Str("V"), <<" ", "W", " ">>}
ProfileAccounts == [account_number : ProfileNumbers, status : ProfileStatuses]

\* What GET /v1/user/profile can come back with: a status that is not ok, a
\* body without an accounts array, a body with one.
ProfileReplies ==
  {[ok |-> FALSE, accounts |-> None], [ok |-> TRUE, accounts |-> None]}
    \cup {[ok |-> TRUE, accounts |-> Some(l)] :
            l \in SeqsUpTo(ProfileAccounts, MaxAccounts)}

\* (a.status ?? "").toLowerCase() !== "closed"
NotClosed(a) ==
  toLowerCase(IF a.status = NullStr THEN EmptyStr ELSE a.status) # Closed

\* A choice that always takes the first account of the list.
MutChosenAccount(accounts) == accounts[1]

\* accounts.find(...) ?? accounts[0]
ChosenAccount(accounts) ==
  LET hits == {i \in 1..Len(accounts) : NotClosed(accounts[i])} IN
  IF hits = {}
    THEN accounts[1]
    ELSE accounts[CHOOSE i \in hits : \A j \in hits : i <= j]

\* How a call of getTradierAccountId ends: with the string it returns, or with
\* the message of the error it throws.
LookupResult(ok, value, message) == [ok |-> ok, value |-> value, message |-> message]

\* getTradierAccountId once the reply is in.
AccountIdOf(reply) ==
  IF ~reply.ok
    THEN LookupResult(FALSE, EmptyStr, "Tradier profile failed")
    ELSE IF reply.accounts = None \/ Len(reply.accounts[1]) = 0
      THEN LookupResult(FALSE, EmptyStr, "Tradier profile returned no accounts")
      ELSE LET account == ChosenAccount(reply.accounts[1])
               trimmed == IF account.account_number = NullStr
                            THEN NullStr
                            ELSE Trim(account.account_number) IN
           IF trimmed = NullStr \/ trimmed = EmptyStr
             THEN LookupResult(FALSE, EmptyStr,
                               "Tradier profile did not include account_number")
             ELSE LookupResult(TRUE, trimmed, "")

\* One call of getTradierAccountId(apiKey, sandbox). The function keeps no
\* state between calls, so a behaviour holds one call.
getTradierAccountId ==
  /\ lookup = None
  /\ \E reply \in ProfileReplies :
       /\ profile' = Some(reply)
       /\ lookup' = Some(AccountIdOf(reply))
  /\ UNCHANGED <<storeVars, cacheVars, configVars, inputVars, engineVars, task, writer,
                 dailyVars, clientVars, overlapVars, pending, login>>

NextProfile == getTradierAccountId

SpecProfile == InitStore /\ [][NextProfile]_vars

-----------------------------------------------------------------------------
(* C32 *)

\* C32: getTradierAccountId returns the account number (without surrounding
\* blanks) of the first account of the profile list whose status is not
\* "closed" in any letter case, and of the first account of the list when
\* every account is closed; it fails when the list is empty (or missing) and
\* when the chosen account has no account number or a blank one.
C32_FirstOpenAccount ==
  lookup # None /\ profile[1].ok =>
    LET l == IF profile[1].accounts = None THEN <<>> ELSE profile[1].accounts[1]
        open == {i \in 1..Len(l) :
                   \/ l[i].status = NullStr
                   \/ toLowerCase(l[i].status) # Closed}
        k == IF open = {} THEN 1 ELSE CHOOSE i \in open : \A j \in open : i <= j
    IN IF l = <<>>
         THEN ~lookup[1].ok
         ELSE IF l[k].account_number = NullStr \/ Trim(l[k].account_number) = EmptyStr
           THEN ~lookup[1].ok
           ELSE /\ lookup[1].ok
                /\ lookup[1].value = Trim(l[k].account_number)

\* A profile whose first account is closed and whose second is active: the
\* call returned the number of the second.
C32_Witness ==
  /\ lookup # None
  /\ profile[1].ok
  /\ profile[1].accounts # None
  /\ Len(profile[1].accounts[1]) = 2
  /\ profile[1].accounts[1][1].status = <<"C", "L", "O", "S", "E", "D">>
  /\ profile[1].accounts[1][1].account_number = Str("V")
  /\ profile[1].accounts[1][2].status = <<"a", "c", "t", "i", "v", "e">>
  /\ profile[1].accounts[1][2].account_number = <<" ", "W", " ">>
  /\ lookup[1].ok
  /\ lookup[1].value = Str("W")

-----------------------------------------------------------------------------
(* C33 *)

\* C33: every Schwab order submission made after a successful token refresh
\* for the portfolio, the resubmission that follows a 401 included, comes
\* after a getAccountNumbers() call made after that refresh.
C33_Original ==
  \A r, k \in 1..Len(calls) :
    (/\ r < k
     /\ RefreshedAt(r)
     /\ calls[k].op = "schwab_order"
     /\ calls[k].portfolio = calls[r].portfolio) => ResolvedBetween(r, k)

-----------------------------------------------------------------------------
(* C34 *)

\* The message of the error placeTradierOrder throws for a reply.
TradierOrderMessage(outcome) ==
  CASE outcome = "401" -> "Tradier place order failed: 401 Unauthorized"
    [] outcome = "rejected" -> "Tradier place order failed: 400 Insufficient funds"
    [] OTHER -> "fetch failed"

\* C34: for a Tradier-bound portfolio the order of an action is submitted at
\* most once and no Schwab call (order, token refresh, account lookup) is made
\* for it; when the Tradier order call fails, with an authentication failure
\* or any other error, it is the last call made for the action and the result
\* of the action is a failed entry whose error is the message of that failure.
C34_TradierSubmitsOnce ==
  (entry = "executeTradesFromActions"
     /\ getPortfolioBrokerage(portfolioId) = "tradier") =>
    \A i \in 1..Len(actions) :
      LET S == {k \in 1..Len(RunCalls) :
                  RunCalls[k].phase = "action" /\ RunCalls[k].item = i}
          posts == {k \in S : RunCalls[k].op = "tradier_order"}
      IN  /\ Cardinality(posts) <= 1
          /\ \A k \in S : RunCalls[k].op \notin SchwabOps
          /\ \A k \in posts :
               RunCalls[k].outcome # "ok" =>
                 /\ \A j \in S : j <= k
                 /\ (pc = "return" /\ idx = i) =>
                      /\ ~result[1].success
                      /\ result[1].error =
                           <<TradierOrderMessage(RunCalls[k].outcome)>>
                 /\ idx > i =>
                      /\ summary.successful = <<>>
                      /\ Len(summary.failed) = 1
                      /\ summary.failed[1].symbol = actions[i].symbol
                      /\ summary.failed[1].error =
                           <<TradierOrderMessage(RunCalls[k].outcome)>>

\* A Tradier order answered 401: the batch is over with that one submission
\* and the action among the failed results.
C34_Witness ==
  /\ entry = "executeTradesFromActions"
  /\ getPortfolioBrokerage(portfolioId) = "tradier"
  /\ pc = "done"
  /\ Len(actions) = 1
  /\ Len(RunCalls) >= 1
  /\ RunCalls[Len(RunCalls)].op = "tradier_order"
  /\ RunCalls[Len(RunCalls)].outcome = "401"
  /\ Len(summary.failed) = 1
  /\ summary.failed[1].error = <<"Tradier place order failed: 401 Unauthorized">>

-----------------------------------------------------------------------------
(* index.ts: the startup run and the cron callback with its retry loop *)

\* SCRAPE_JOB_RETRY_ATTEMPTS, by default.
JOB_RETRY_ATTEMPTS == 3
\* Most ticks of the cron schedule in one behaviour.
MaxTicks == 1

\* Every variable the runs of runCheck() leave alone.
runFrame ==
  <<tradeVars, task, writer, clientVars, profileVars, today, job, pending,
    login>>

\* main().catch has not called process.exit(1).
Alive == runs["startup"].pc # "exit"

\* What a run of runCheck() did.
RunEvent(r, ev) ==
  [run |-> r, tick |-> runs[r].tick, attempt |-> runs[r].attempt,
   date |-> runs[r].date, ev |-> ev]

\* The schedule fires: the callback starts its first attempt.
CronTick ==
  /\ Alive
  /\ runs["cron"].pc = "wait"
  /\ runs["cron"].tick < MaxTicks
  /\ runs' = [runs EXCEPT !["cron"] =
       [pc |-> "start", date |-> 0, attempt |-> 1, tick |-> @.tick + 1]]
  /\ UNCHANGED <<runFrame, lastProcessedDate, journal>>

\* await scrapePortfolioData(): it throws, finds no actions, or returns
\* actions dated today.
RunScrape(r) ==
  /\ Alive
  /\ runs[r].pc = "start"
  /\ \E outcome \in {"actions", "none", "error"} :
       runs' = [runs EXCEPT ![r].date = today,
                            ![r].pc = CASE outcome = "actions" -> "scraped"
                                        [] outcome = "none" -> "returned"
                                        [] OTHER -> "failed"]
  /\ UNCHANGED <<runFrame, lastProcessedDate, journal>>

\* await readState() and shouldProcess().
RunReadState(r) ==
  /\ Alive
  /\ runs[r].pc = "scraped"
  /\ IF shouldProcess(runs[r].date, lastProcessedDate)
       THEN /\ runs' = [runs EXCEPT ![r].pc = "trade"]
            /\ UNCHANGED journal
       ELSE /\ runs' = [runs EXCEPT ![r].pc = "returned"]
            /\ journal' = Append(journal, RunEvent(r, "skip"))
  /\ UNCHANGED <<runFrame, lastProcessedDate>>

\* The loop that awaits executeTradesFromActions for every portfolio with
\* credentials.
RunTrade(r) ==
  /\ Alive
  /\ runs[r].pc = "trade"
  /\ \E outcome \in {"returned", "thrown"} :
       /\ journal' = Append(journal, RunEvent(r, "trade"))
       /\ runs' = [runs EXCEPT ![r].pc = IF outcome = "returned" THEN "notify"
                                          ELSE "failed"]
  /\ UNCHANGED <<runFrame, lastProcessedDate>>

\* await sendNotification(processedSignals)
RunNotify(r) ==
  /\ Alive
  /\ runs[r].pc = "notify"
  /\ \E outcome \in {"ok", "error"} :
       runs' = [runs EXCEPT ![r].pc = IF outcome = "ok" THEN "write" ELSE "failed"]
  /\ UNCHANGED <<runFrame, lastProcessedDate, journal>>

\* await writeState(scrapedData.date, timestamp)
RunWriteState(r) ==
  /\ Alive
  /\ runs[r].pc = "write"
  /\ \E outcome \in {"ok", "error"} :
       IF outcome = "ok"
         THEN /\ lastProcessedDate' = runs[r].date
              /\ journal' = Append(journal, RunEvent(r, "write_state"))
              /\ runs' = [runs EXCEPT ![r].pc = "returned"]
         ELSE /\ runs' = [runs EXCEPT ![r].pc = "failed"]
              /\ UNCHANGED <<lastProcessedDate, journal>>
  /\ UNCHANGED runFrame

\* runCheck() has returned or thrown to its caller: the retry loop of the
\* cron callback calls it again after a failure until the attempts are used
\* up; a failure of the startup run ends the process.
RunSettle(r) ==
  /\ Alive
  /\ runs[r].pc \in {"returned", "failed"}
  /\ runs' = [runs EXCEPT ![r].pc =
       CASE r = "startup" /\ runs[r].pc = "returned" -> "over"
         [] r = "startup" -> "exit"
         [] runs[r].pc = "failed" /\ runs[r].attempt < JOB_RETRY_ATTEMPTS -> "start"
         [] OTHER -> "wait",
                        ![r].attempt =
       IF r = "cron" /\ runs[r].pc = "failed" /\ runs[r].attempt < JOB_RETRY_ATTEMPTS
         THEN @ + 1 ELSE @]
  /\ UNCHANGED <<runFrame, lastProcessedDate, journal>>

NextOverlap ==
  \/ CronTick
  \/ \E r \in Runners :
       \/ RunScrape(r)
       \/ RunReadState(r)
       \/ RunTrade(r)
       \/ RunNotify(r)
       \/ RunWriteState(r)
       \/ RunSettle(r)

SpecOverlap == InitStore /\ [][NextOverlap]_vars

-----------------------------------------------------------------------------
(* C35 *)

\* C35: across the startup run, the cron-triggered runs that overlap it and
\* the retry attempts after a failed run, the trades of one scraped date are
\* executed at most once.
C35_Original ==
  \A i, k \in 1..Len(journal) :
    (i < k /\ journal[i].ev = "trade" /\ journal[k].ev = "trade") =>
      journal[i].date # journal[k].date

-----------------------------------------------------------------------------
(* trader.ts: the write-backs of the engine, with their awaits, next to the
   admin server's credential writes *)

\* Every variable the write-backs and the admin writes leave alone, the
\* store and the caches apart.
backFrame ==
  <<configVars, inputVars, engineVars, task, writer, dailyVars, clientVars,
    profileVars, overlapVars, login>>

\* refreshTokensIfNeeded up to `await auth.refresh(refreshToken)`: the
\* credentials are read and the refresh token is sent.
BeginRefresh ==
  /\ pending = NoPending
  /\ \E p \in Portfolios :
       /\ readSchwabCredentials(p) # None
       /\ pending' = [kind |-> "refresh", portfolio |-> p,
                      creds |-> readSchwabCredentials(p)]
  /\ UNCHANGED <<storeVars, cacheVars, backFrame>>

\* refreshTokensIfNeeded after auth.refresh: the credentials are read again,
\* written with the new tokens, and both cache entries are dropped; a failed
\* refresh throws.
EndRefresh ==
  /\ pending.kind = "refresh"
  /\ LET p == pending.portfolio
         sent == pending.creds[1] IN
     \E outcome \in RefreshOutcomes :
       /\ outcome \in {"ok_rt", "ok_no_rt"} => sent.accessToken < MaxToken
       /\ IF outcome \in {"ok_rt", "ok_no_rt"}
            THEN /\ writeSchwabCredentials(p,
                      RefreshedCreds(sent.accessToken + 1,
                                     IF outcome = "ok_rt"
                                       THEN sent.refreshToken + 1 ELSE 0,
                                     readSchwabCredentials(p)))
                 /\ clearSchwabCachesForPortfolio(p)
            ELSE UNCHANGED <<storeVars, cacheVars>>
  /\ pending' = NoPending
  /\ UNCHANGED backFrame

\* resolveTradierAccountId up to `await getTradierAccountId(...)`, for
\* credentials without an account identifier.
BeginResolve ==
  /\ pending = NoPending
  /\ \E p \in Portfolios :
       /\ getPortfolioBrokerage(p) = "tradier"
       /\ IsBlank(readTradierCredentials(p)[1].accountId)
       /\ pending' = [kind |-> "resolve", portfolio |-> p,
                      creds |-> readTradierCredentials(p)]
  /\ UNCHANGED <<storeVars, cacheVars, backFrame>>

\* resolveTradierAccountId after the profile lookup: the credentials it was
\* given are written with the identifier; a failed lookup throws.
EndResolve ==
  /\ pending.kind = "resolve"
  /\ \E outcome \in {"ok", "error"} :
       IF outcome = "ok"
         THEN writeTradierCredentials(pending.portfolio,
                ResolvedCreds(pending.creds[1], TradierAccount))
         ELSE UNCHANGED storeVars
  /\ pending' = NoPending
  /\ UNCHANGED <<cacheVars, backFrame>>

\* POST /api/tradier/connect, whenever the admin sends it.
ConnectTradier ==
  /\ \E p \in Portfolios :
       writeTradierCredentials(p, InitialTradierCreds(TradierAccount))
  /\ UNCHANGED <<cacheVars, pending, backFrame>>

\* The OAuth callback with a successful token exchange, whenever the admin
\* completes a login.
ConnectSchwab ==
  /\ \E p \in Portfolios :
       /\ writeSchwabCredentials(p, InitialSchwabCreds)
       /\ clearSchwabCachesForPortfolio(p)
  /\ UNCHANGED <<pending, backFrame>>

NextWriteBack ==
  \/ BeginRefresh
  \/ EndRefresh
  \/ BeginResolve
  \/ EndResolve
  \/ ConnectTradier
  \/ ConnectSchwab

SpecWriteBack == InitKeys /\ [][NextWriteBack]_vars

-----------------------------------------------------------------------------
(* C36 *)

\* C36: the step in which the engine writes credentials back (the tokens
\* after a refresh, the resolved Tradier account identifier) leaves every
\* portfolio bound to the brokerage it was bound to before the step.
C36_Original ==
  [][(pending.kind # "none" /\ pending'.kind = "none") =>
       \A p \in Portfolios : getPortfolioBrokerage(p)' = getPortfolioBrokerage(p)]_vars

-----------------------------------------------------------------------------
(* trader.ts: the engine at work on one portfolio of two *)

\* A process that operates on portfolio 1, bound to Schwab or to Tradier,
\* after it has operated on portfolio 2: that one is bound to Schwab, with
\* its client and its account hash in the caches, or to Tradier.
InitOthers ==
  /\ \E own \in {"schwab", "tradier"}, other \in {"schwab", "tradier"},
        creds \in StoredTradierCreds :
       /\ own = "schwab" => creds = InitialTradierCreds(NullStr)
       /\ schwab_credentials = [p \in Portfolios |->
            IF (p = 1 /\ own = "schwab") \/ (p = 2 /\ other = "schwab")
              THEN Some(SchwabRow(InitialSchwabCreds)) ELSE NoRow]
       /\ tradier_credentials = [p \in Portfolios |->
            IF p = 1 /\ own = "tradier" THEN Some(TradierRow(creds))
            ELSE IF p = 2 /\ other = "tradier"
              THEN Some(TradierRow(InitialTradierCreds(Str("V"))))
            ELSE NoRow]
       /\ lastWritten = [p \in Portfolios |-> IF p = 1 THEN own ELSE other]
       /\ schwabClientByPortfolio = [p \in Portfolios |-> p = 2 /\ other = "schwab"]
       /\ accountHashByPortfolio = [p \in Portfolios |->
            IF p = 2 /\ other = "schwab" THEN AccountHash ELSE Null]
  /\ ENABLE_TRADING = TRUE
  /\ TRADIER_ENABLE_TRADING = TRUE
  /\ held \in ActionsHoldings
  /\ ProcessIdle
  /\ EngineAtRest

\* The batch entry points and the token-save callback of the client.
NextOthers == NextBatch \/ SaveTokens

SpecOthers == InitOthers /\ [][NextOthers]_vars

-----------------------------------------------------------------------------
(* C37 *)

\* C37: no step of an engine operation on one portfolio (position fetch,
\* order, token refresh, account resolution) changes the stored credentials,
\* the cached client or the cached account hash of another portfolio.
C37_OtherPortfoliosFrame ==
  [][\A q \in Portfolios :
       q # portfolioId' =>
         /\ schwab_credentials'[q] = schwab_credentials[q]
         /\ tradier_credentials'[q] = tradier_credentials[q]
         /\ schwabClientByPortfolio'[q] = schwabClientByPortfolio[q]
         /\ accountHashByPortfolio'[q] = accountHashByPortfolio[q]]_vars

\* Portfolio 1 has had its tokens refreshed and written and its cache entries
\* dropped, and then its account resolved again, while portfolio 2 still has
\* its credentials, its client and its account hash.
C37_Witness ==
  /\ portfolioId = 1
  /\ \E r, k \in 1..Len(calls) :
       /\ r < k
       /\ calls[r].op = "refresh" /\ calls[r].outcome = "ok_rt"
       /\ calls[k].op = "account_numbers" /\ calls[k].outcome = "ok"
  /\ accountHashByPortfolio[1] = AccountHash
  /\ schwab_credentials[2] = Some(SchwabRow(InitialSchwabCreds))
  /\ schwabClientByPortfolio[2]
  /\ accountHashByPortfolio[2] = AccountHash

-----------------------------------------------------------------------------
(* C38 *)

\* The step is a call of auth.refresh that failed.
RefreshFailedStep ==
  /\ Len(calls') = Len(calls) + 1
  /\ calls'[Len(calls')].op = "refresh"
  /\ calls'[Len(calls')].outcome \in {"expired", "error"}

\* The message of the error refreshTokensIfNeeded throws then.
RefreshFailureMessage(outcome) ==
  IF outcome = "expired"
    THEN "Refresh token expired. Please re-authenticate through Schwab's OAuth flow."
    ELSE "refresh failed"

\* C38: when the token exchange inside refreshTokensIfNeeded fails, the call
\* changes neither the stored credentials nor the cached client nor the
\* cached account hash of the portfolio, and it ends with an error: the
\* error is the failure of the order being placed, or of the position fetch,
\* or the rejection of the entry point.
C38_FailedRefreshFrame ==
  [][RefreshFailedStep =>
       LET message == RefreshFailureMessage(calls'[Len(calls')].outcome) IN
       /\ schwab_credentials' = schwab_credentials
       /\ tradier_credentials' = tradier_credentials
       /\ schwabClientByPortfolio' = schwabClientByPortfolio
       /\ accountHashByPortfolio' = accountHashByPortfolio
       /\ \/ /\ pc' = "return"
             /\ ~result'[1].success
             /\ result'[1].error = <<message>>
          \/ /\ pc' = "thrown"
             /\ thrown'[1].message = message
          \/ /\ pc' = "done"
             /\ entry = "verifyConnection"
             /\ ~result'[1].ok
             /\ result'[1].message = message
          \/ /\ pc' = "done"
             /\ entry = "executeTrades"
             /\ Len(summary'.failed) = Len(summary.failed) + 1
             /\ summary'.failed[Len(summary'.failed)].error =
                  <<"Failed to fetch positions: ", message>>]_vars

\* An order answered 401 whose refresh failed for another reason than an
\* expired refresh token: the order has failed with the refresh error, and
\* the hash and the client cached before the order are still there.
C38_Witness ==
  /\ pc = "return"
  /\ Len(calls) >= 2
  /\ calls[Len(calls)].op = "refresh"
  /\ calls[Len(calls)].outcome = "error"
  /\ calls[Len(calls) - 1].op = "schwab_order"
  /\ ~result[1].success
  /\ result[1].error = <<"refresh failed">>
  /\ schwabClientByPortfolio[portfolioId]
  /\ accountHashByPortfolio[portfolioId] = AccountHash
  /\ schwab_credentials[portfolioId][1].access_token = 1

-----------------------------------------------------------------------------
(* schwab-oauth.ts: the Schwab OAuth login flow *)

\* Most login flows started in one behaviour.
MaxFlows == 2

\* Most callbacks answered in one behaviour.
MaxCallbacks == 2

\* Every variable the login flow leaves alone, the store and the caches
\* apart.
loginFrame ==
  <<configVars, inputVars, engineVars, task, writer, dailyVars, clientVars,
    profileVars, overlapVars, pending>>

\* Calling the closure startSchwabLoginFlow stores in
\* pendingResolveFlowComplete, if one is stored: the login is no longer in
\* progress, the pending portfolio is forgotten and flowComplete of the flow
\* that stored it is resolved.
callPending(l) ==
  IF l.pendingResolveFlowComplete = 0 THEN l
  ELSE [l EXCEPT !.loginInProgress = FALSE,
                 !.pendingPortfolioId = 0,
                 !.flows[l.pendingResolveFlowComplete].flowComplete = TRUE,
                 !.pendingResolveFlowComplete = 0]

\* A resolveFlow that only forgets the pending closure.
MutResolveFlow(l) == [l EXCEPT !.pendingResolveFlowComplete = 0]

\* resolveFlow of handleSchwabCallback.
resolveFlow(l) ==
  [callPending(l) EXCEPT !.pendingResolveFlowComplete = 0,
                         !.loginInProgress = FALSE]

\* A local callback server is bound to the redirect port.
PortTaken(l) == \E f \in DOMAIN l.flows : l.flows[f].server = "listening"

\* startSchwabLoginFlow(portfolioId), the client id and secret being set. A
\* login still marked in progress is resolved and unmarked first. When the
\* authorization URL cannot be had the function throws there. Otherwise the
\* login is in progress and a flow with its flowComplete exists: with a
\* remote callback the portfolio and the resolver are stored and the flow is
\* returned; else the local server listens, or fails to for the port being
\* taken, which unmarks the login and rejects.
startSchwabLoginFlow(l, p, urlOk) ==
  LET reset == IF l.loginInProgress
               THEN [callPending(l) EXCEPT !.pendingResolveFlowComplete = 0,
                                           !.loginInProgress = FALSE]
               ELSE l
      f == Len(l.flows) + 1
      flow(server) == [portfolioId |-> p, flowComplete |-> FALSE, server |-> server]
  IN IF ~urlOk THEN reset
     ELSE IF l.useRemoteCallback
       THEN [reset EXCEPT !.loginInProgress = TRUE,
                          !.pendingPortfolioId = p,
                          !.pendingResolveFlowComplete = f,
                          !.flows = Append(@, flow("none"))]
     ELSE IF PortTaken(l)
       THEN [reset EXCEPT !.loginInProgress = FALSE]
     ELSE [reset EXCEPT !.loginInProgress = TRUE,
                        !.flows = Append(@, flow("listening"))]

\* POST /api/schwab/start-login: refused while a login is in progress, and
\* without a positive portfolioId; otherwise the flow is started.
StartLogin ==
  /\ ~login.loginInProgress
  /\ Len(login.flows) < MaxFlows
  /\ \E p \in Portfolios, urlOk \in BOOLEAN :
       login' = startSchwabLoginFlow(login, p, urlOk)
  /\ UNCHANGED <<storeVars, cacheVars, loginFrame>>

\* What a callback request carries: the error parameter, the code, and the
\* state parameter as parseInt reads it (0: absent or not a positive number).
CallbackRequests == [error : BOOLEAN, code : BOOLEAN, state : {0} \cup Portfolios]

\* What auth.exchangeCode gives: it throws, or returns tokens of which either
\* may be missing.
ExchangeReplies ==
  {r \in [thrown : BOOLEAN, accessToken : {None, Some(1)},
          refreshToken : {None, Some(1)}] :
     r.thrown => r.accessToken = None /\ r.refreshToken = None}

\* A callback answered: by the local server of a flow or by
\* handleSchwabCallback, how, and with what reply of the token exchange.
Outcome(remote, f, p, outcome, reply) ==
  [remote |-> remote, flow |-> f, portfolio |-> p, outcome |-> outcome,
   reply |-> reply]

\* The local server of flow f ends the flow: the login is unmarked,
\* flowComplete is resolved and the server is closed.
EndLocal(l, f) ==
  [l EXCEPT !.loginInProgress = FALSE,
            !.flows[f].flowComplete = TRUE,
            !.flows[f].server = "closed"]

\* The request handler of the local server, on /callback, up to
\* `await auth.exchangeCode`: an OAuth error, a missing code and a portfolio
\* that cannot be resolved end the flow there.
LocalCallback ==
  /\ Len(login.outcomes) < MaxCallbacks
  /\ login.exchange = None
  /\ \E f \in DOMAIN login.flows, req \in CallbackRequests :
       LET resolvedPortfolioId ==
             IF req.state > 0 THEN req.state ELSE login.flows[f].portfolioId
           end(outcome) ==
             [EndLocal(login, f) EXCEPT
                !.outcomes = Append(@, Outcome(FALSE, f, resolvedPortfolioId,
                                               outcome, None))]
       IN /\ login.flows[f].server = "listening"
          /\ login' =
               IF req.error THEN end("oauth_error")
               ELSE IF ~req.code THEN end("missing_code")
               ELSE IF resolvedPortfolioId <= 0 THEN end("invalid_portfolio")
               ELSE [login EXCEPT !.exchange =
                       Some([remote |-> FALSE, flow |-> f,
                             portfolio |-> resolvedPortfolioId])]
  /\ UNCHANGED <<storeVars, cacheVars, loginFrame>>

\* The credentials either callback writes after the exchange, with the
\* account number getAccounts() may have given.
LoginCreds(reply, acct) ==
  [accessToken |-> reply.accessToken[1], refreshToken |-> reply.refreshToken[1],
   redirectUri |-> "uri", accountNumber |-> acct]

\* The exchange gave no access token or no refresh token, or threw.
TokensMissing(reply) ==
  reply.thrown \/ reply.accessToken = None \/ reply.refreshToken = None

\* The credentials are written and the caches of the portfolio are dropped,
\* or, the tokens missing, nothing is.
WriteIfTokens(p, reply) ==
  IF TokensMissing(reply)
  THEN UNCHANGED <<storeVars, cacheVars>>
  ELSE /\ \E acct \in {Null, "acct"} :
            writeSchwabCredentials(p, LoginCreds(reply, acct))
       /\ clearSchwabCachesForPortfolio(p)

\* The rest of the request handler of the local server: try, catch and
\* finally.
LocalExchangeEnd ==
  /\ login.exchange # None
  /\ ~login.exchange[1].remote
  /\ \E reply \in ExchangeReplies :
       LET f == login.exchange[1].flow
           p == login.exchange[1].portfolio
       IN /\ WriteIfTokens(p, reply)
          /\ login' =
               [EndLocal(login, f) EXCEPT
                  !.exchange = None,
                  !.outcomes = Append(@, Outcome(FALSE, f, p,
                     IF TokensMissing(reply) THEN "exchange_failed" ELSE "success",
                     Some(reply)))]
  /\ UNCHANGED loginFrame

\* handleSchwabCallback up to `await auth.exchangeCode`: without
\* SCHWAB_REDIRECT_URI it answers a configuration error and ends nothing; an
\* OAuth error, a missing code and a portfolio that cannot be resolved call
\* resolveFlow.
RemoteCallback ==
  /\ Len(login.outcomes) < MaxCallbacks
  /\ login.exchange = None
  /\ \E req \in CallbackRequests :
       LET resolvedPortfolioId ==
             IF req.state > 0 THEN req.state ELSE login.pendingPortfolioId
           answered(l, outcome) ==
             [l EXCEPT
                !.outcomes = Append(@, Outcome(TRUE, login.pendingResolveFlowComplete,
                                               resolvedPortfolioId, outcome, None))]
       IN login' =
            IF ~login.useRemoteCallback THEN answered(login, "config_error")
            ELSE IF req.error THEN answered(resolveFlow(login), "oauth_error")
            ELSE IF ~req.code THEN answered(resolveFlow(login), "missing_code")
            ELSE IF resolvedPortfolioId <= 0
              THEN answered(resolveFlow(login), "invalid_portfolio")
            ELSE [login EXCEPT !.exchange =
                    Some([remote |-> TRUE, flow |-> 0,
                          portfolio |-> resolvedPortfolioId])]
  /\ UNCHANGED <<storeVars, cacheVars, loginFrame>>

\* The rest of handleSchwabCallback: resolveFlow is called after the write
\* and the eviction, or in the catch.
RemoteExchangeEnd ==
  /\ login.exchange # None
  /\ login.exchange[1].remote
  /\ \E reply \in ExchangeReplies :
       LET p == login.exchange[1].portfolio IN
       /\ WriteIfTokens(p, reply)
       /\ login' =
            [resolveFlow(login) EXCEPT
               !.exchange = None,
               !.outcomes = Append(@, Outcome(TRUE, login.pendingResolveFlowComplete, p,
                  IF TokensMissing(reply) THEN "exchange_failed" ELSE "success",
                  Some(reply)))]
  /\ UNCHANGED loginFrame

\* The admin server with an empty store, SCHWAB_REDIRECT_URI set or not.
InitLogin ==
  /\ schwab_credentials = [p \in Portfolios |-> NoRow]
  /\ tradier_credentials = [p \in Portfolios |-> NoRow]
  /\ lastWritten = [p \in Portfolios |-> "none"]
  /\ ENABLE_TRADING = TRUE
  /\ TRADIER_ENABLE_TRADING = TRUE
  /\ held = [s \in Symbols |-> NoPos]
  /\ schwabClientByPortfolio = [p \in Portfolios |-> FALSE]
  /\ accountHashByPortfolio = [p \in Portfolios |-> Null]
  /\ EngineAtRest
  /\ ProcessAtRest
  /\ login \in {LoginIdle(remote) : remote \in BOOLEAN}

NextLogin ==
  \/ StartLogin
  \/ LocalCallback
  \/ LocalExchangeEnd
  \/ RemoteCallback
  \/ RemoteExchangeEnd

SpecLogin == InitLogin /\ [][NextLogin]_vars

\* The outcomes of a callback that end a flow.
FlowEnding ==
  {"oauth_error", "missing_code", "invalid_portfolio", "exchange_failed", "success"}

\* C39: every callback answered with an OAuth error, a missing code, an
\* unresolvable portfolio, a failed token exchange or a success leaves
\* loginInProgress false and flowComplete resolved: that of the flow whose
\* server was called, or that of the flow whose resolver was pending when
\* handleSchwabCallback answered. And a step changes the credential tables
\* only as the answer to a token exchange that returned both an access token
\* and a refresh token.
C39_CallbackEndsFlow ==
  [][LET n == Len(login'.outcomes)
         answered == n = Len(login.outcomes) + 1
         e == login'.outcomes[n]
     IN /\ (answered /\ e.outcome \in FlowEnding) =>
             /\ ~login'.loginInProgress
             /\ e.flow # 0 => login'.flows[e.flow].flowComplete
             /\ e.remote => login'.pendingResolveFlowComplete = 0
        /\ (schwab_credentials' # schwab_credentials
              \/ tradier_credentials' # tradier_credentials) =>
             /\ answered
             /\ e.outcome = "success"
             /\ e.reply # None
             /\ ~e.reply[1].thrown
             /\ e.reply[1].accessToken # None
             /\ e.reply[1].refreshToken # None]_vars

\* A flow started with a remote callback for portfolio 2 whose callback
\* exchanged the code for both tokens: the login is over, flowComplete is
\* resolved and the credentials of portfolio 2 are stored.
C39_Witness ==
  /\ login.useRemoteCallback
  /\ Len(login.flows) = 1
  /\ login.flows[1].portfolioId = 2
  /\ login.flows[1].flowComplete
  /\ ~login.loginInProgress
  /\ Len(login.outcomes) = 1
  /\ login.outcomes[1].outcome = "success"
  /\ login.outcomes[1].flow = 1
  /\ schwab_credentials[2] # NoRow

====
